---------------------------- MODULE Spec2Model ----------------------------
(***************************************************************************)
(* Model of runner-dashboard: the presentation context (App, run_app), the *)
(* background worker (worker_thread), the status prober (refresh_runners)  *)
(* and the action controller (control_runner).                             *)
(*                                                                         *)
(* Text is modelled as a sequence of one-character strings, so that the    *)
(* character checks of the code (all(), contains(), starts_with()) are     *)
(* computed and not assumed.                                               *)
(***************************************************************************)
EXTENDS Integers, Sequences, FiniteSets, TLC

VARIABLES
    platform,        \* cfg!(target_os = "macos"): "linux" or "macos"
    world,           \* the host: units, agents, processes, files, tools
    calls,           \* external process invocations of the call under study
    \* ---- the two queues (app.rs:72-73)
    command_q,       \* presentation -> worker
    response_q,      \* worker -> presentation
    tx_alive,        \* App.command_tx not dropped
    rx_alive,        \* App.response_rx not dropped
    \* ---- worker_thread (app.rs:268-323)
    w_pc,            \* "running" (in its loop) or "stopped" (returned)
    w_runners,       \* the worker's own runner list
    w_cmd,           \* the command recv_timeout returned last
    w_msg,           \* the `message` local of the last ControlRunner arm
    \* ---- App (app.rs:49-61)
    runners,         \* App.runners
    selected,        \* App.selected
    status_message,  \* App.status_message
    mode,            \* App.mode
    should_quit,     \* App.should_quit
    ui_pc,           \* "loop" (in run_app), "returned", "dropped"
    \* ---- one control_runner call (runner.rs:464-710)
    c_pc,            \* position inside the call
    c_runner,        \* its runner argument
    c_action,        \* its action argument
    c_result,        \* its return value
    c_elapsed,       \* start.elapsed() of restart_runner_process, in PollMs units
    \* ---- one refresh_runners call studied alone (runner.rs:426-458)
    p_runners,       \* its argument, after the call when p_done
    p_done,
    \* ---- one discover_runners call studied alone (runner.rs:73-103)
    d_runners,       \* the Vec it returned, when d_result.ok
    d_result,        \* NoResult before it returns, then Ok or Err
    \* ---- history (not program state)
    h_sent,          \* every response_tx.send the worker made, in order, with
                     \* the host its handler probed
    h_ctl,           \* runners control_runner was invoked on, by command id
    h_cmds           \* every command sent, in order: command id i is h_cmds[i]

vars == << platform, world, calls, command_q, response_q, tx_alive, rx_alive,
           w_pc, w_runners, w_cmd, w_msg,
           runners, selected, status_message, mode, should_quit, ui_pc,
           c_pc, c_runner, c_action, c_result, c_elapsed,
           p_runners, p_done, d_runners, d_result,
           h_sent, h_ctl, h_cmds >>

worldVars == << platform, world >>
chanVars  == << command_q, response_q, tx_alive, rx_alive >>
workVars  == << w_pc, w_runners, w_cmd, w_msg >>
appVars   == << runners, selected, status_message, mode, should_quit, ui_pc >>
ctlVars   == << c_pc, c_runner, c_action, c_result, c_elapsed >>
prbVars   == << p_runners, p_done, d_runners, d_result >>
histVars  == << h_sent, h_ctl, h_cmds >>

---------------------------------------------------------------------------
(* Text                                                                    *)

RECURSIVE ContainsAt(_, _, _)
ContainsAt(hay, needle, i) ==
    IF i + Len(needle) - 1 > Len(hay) THEN FALSE
    ELSE IF SubSeq(hay, i, i + Len(needle) - 1) = needle THEN TRUE
    ELSE ContainsAt(hay, needle, i + 1)

\* str::contains(&str)
Contains(hay, needle) == ContainsAt(hay, needle, 1)

\* str::contains(char)
ContainsChar(s, c) == \E i \in 1..Len(s) : s[i] = c

\* str::starts_with
StartsWith(s, p) == Len(s) >= Len(p) /\ SubSeq(s, 1, Len(p)) = p

Digit(d) == CASE d = 0 -> "0" [] d = 1 -> "1" [] d = 2 -> "2" [] d = 3 -> "3"
              [] d = 4 -> "4" [] d = 5 -> "5" [] d = 6 -> "6" [] d = 7 -> "7"
              [] d = 8 -> "8" [] d = 9 -> "9"

\* Display of a u32 / usize
RECURSIVE Decimal(_)
Decimal(n) == IF n < 10 THEN << Digit(n) >>
              ELSE Decimal(n \div 10) \o << Digit(n % 10) >>

\* The ASCII letters the model's texts are written with
AsciiLetters == { "a", "c", "e", "h", "i", "n", "o", "r", "s", "t", "u",
                  "A", "B", "R", "p" }
AsciiDigits  == { "0", "1", "2", "3", "4", "5", "6", "7", "8", "9" }
\* Letters and digits of Unicode that are not ASCII, each one character,
\* written by code point: e with acute accent, Arabic-Indic digit three
OtherAlphanumeric == { "U+00E9", "U+0663" }

\* char::is_alphanumeric: Alphabetic or Numeric in Unicode, not only ASCII
is_alphanumeric(c) == c \in AsciiLetters \cup AsciiDigits \cup OtherAlphanumeric

\* LF, CR and DQUOTE stand for the line feed, the carriage return and the
\* double quote, one character each
DANGEROUS_CHARS == { ";", "&", "|", "`", "$", "LF", "CR", "'", "DQUOTE", "(", ")",
                     "{", "}", "<", ">", "*", "?", "[", "]", "!", "#" }

\* Ok(()) is [ok |-> TRUE]; Err carries the message
validate_path(path) ==
    IF \E c \in DANGEROUS_CHARS : ContainsChar(path, c)
    THEN [ok |-> FALSE, err |-> "Invalid path: contains shell metacharacter"]
    ELSE [ok |-> TRUE, err |-> ""]

ServicePrefix == << "a", "c", "t", "i", "o", "n", "s", ".",
                    "r", "u", "n", "n", "e", "r", "." >>
RunnerInfix   == << "-", "r", "u", "n", "n", "e", "r", "-" >>

\* format!("actions.runner.{}.{}-runner-{}", username, repo_name, runner_num)
service_name_of(username, repo, num) ==
    ServicePrefix \o username \o << "." >> \o repo \o RunnerInfix \o Decimal(num)

\* Runner::display_name
display_name(r) == r.repo \o RunnerInfix \o Decimal(r.number)

---------------------------------------------------------------------------
(* Paths                                                                   *)

RECURSIVE LastSlash(_, _)
LastSlash(p, i) == IF i = 0 THEN 0 ELSE IF p[i] = "/" THEN i ELSE LastSlash(p, i - 1)

\* Path::parent
parent(p) == LET k == LastSlash(p, Len(p)) IN IF k <= 1 THEN << >> ELSE SubSeq(p, 1, k - 1)

\* Path::file_name
file_name(p) == SubSeq(p, LastSlash(p, Len(p)) + 1, Len(p))

\* Path::join
join(p, f) == p \o << "/" >> \o f

Home          == << "/", "h" >>
ActionRunners == << "a", "c", "t", "i", "o", "n", "-", "r", "u", "n", "n", "e", "r", "s" >>
\* home.join("action-runners")
runners_dir   == join(Home, ActionRunners)

User == << "u" >>

---------------------------------------------------------------------------
(* Runners                                                                 *)

RunnerStatus == { "Active", "Inactive", "Failed", "NotFound" }

\* struct Runner; the display-only field `name` is left out
Runner(repo, number, slot, status) ==
    [ repo         |-> repo,
      number       |-> number,
      status       |-> status,
      service_name |-> service_name_of(User, repo, number),
      path         |-> join(join(runners_dir, repo), slot) ]

Identity(r) == [ repo |-> r.repo, number |-> r.number,
                 service_name |-> r.service_name, path |-> r.path ]

Identities(rs) == [ i \in 1..Len(rs) |-> Identity(rs[i]) ]
Statuses(rs)   == [ i \in 1..Len(rs) |-> rs[i].status ]

---------------------------------------------------------------------------
(* The host, as the external commands and the file system report it.       *)
(*   unit   : service name -> what `systemctl is-active` prints, or        *)
(*            "absent" when `systemctl cat` fails                          *)
(*   agent  : service name -> first token of `launchctl list <name>`       *)
(*            ("pid" a number, "dash", "other", "empty" no output), or     *)
(*            "absent" when the command exits non-zero                     *)
(*   listing: lines of `launchctl list`: [pid, label]                      *)
(*   procs  : live processes: [runner, text], runner = the command line    *)
(*            matches "Runner", text = the path the command line holds     *)
(*   markers: runner directories holding .runner                           *)
(*   svc    : runner directories holding svc.sh                            *)
(*   plists : service names with a plist under ~/Library/LaunchAgents      *)
(*   down   : commands that cannot be spawned (Command::output is Err)     *)
(*   nostate: service names whose `systemctl is-active` cannot be spawned  *)
(*   tree   : what is under ~/action-runners. root is "nohome" (no home    *)
(*            directory is known), "missing", "unreadable" (read_dir       *)
(*            fails) or "dir"; top maps the name of each entry of the root *)
(*            to its kind ("file", "dir", "unreadable") and, for a         *)
(*            directory, sub maps the name of each of its entries to       *)
(*            "file", "dir" (a directory without run.sh), "runner" (a      *)
(*            directory holding run.sh) or "nested" (a directory without   *)
(*            run.sh holding a directory with run.sh); "absent" is a name  *)
(*            not in the listing                                           *)

UnitStates  == { "absent", "active", "inactive", "failed", "activating" }
AgentStates == { "absent", "pid", "dash", "other", "empty" }

Lookup(f, k, dflt) == IF k \in DOMAIN f THEN f[k] ELSE dflt

NoTree == [ root |-> "missing", top |-> << >> ]

EmptyWorld == [ unit |-> << >>, agent |-> << >>, listing |-> {}, procs |-> {},
                markers |-> {}, svc |-> {}, plists |-> {}, down |-> {},
                nostate |-> {}, tree |-> NoTree ]

\* One external process invocation, as recorded in `calls`: the command, what
\* it is given, and how it ended where the caller looks at that
Call(cmd, arg, out) == [ cmd |-> cmd, arg |-> arg, out |-> out ]

---------------------------------------------------------------------------
(* StatusProber (runner.rs:155-458)                                        *)

\* (mutant) a `systemctl cat` that cannot be spawned counts as success
systemctl_unit_exists_unwrap_true(w, name) ==
    \/ "systemctl" \in w.down
    \/ Lookup(w.unit, name, "absent") # "absent"

\* systemctl cat <name> succeeded
systemctl_unit_exists(w, name) ==
    /\ "systemctl" \notin w.down
    /\ Lookup(w.unit, name, "absent") # "absent"

\* The HashMap returned: the names that are keys, and the value of each
systemctl_keys(w, names) ==
    { names[i] : i \in { j \in 1..Len(names) :
                            /\ systemctl_unit_exists(w, names[j])
                            /\ names[j] \notin w.nostate } }

get_all_systemctl_services(w, names) ==
    [ n \in systemctl_keys(w, names) |-> w.unit[n] ]

\* (mutant) the state of every name is queried, registered or not
RECURSIVE systemctl_calls_eager(_, _)
systemctl_calls_eager(w, names) ==
    IF names = << >> THEN << >>
    ELSE << Call("systemctl cat", Head(names), ""),
            Call("systemctl is-active", Head(names), "") >>
         \o systemctl_calls_eager(w, Tail(names))

RECURSIVE systemctl_calls(_, _)
systemctl_calls(w, names) ==
    IF names = << >> THEN << >>
    ELSE << Call("systemctl cat", Head(names), "") >>
         \o (IF systemctl_unit_exists(w, Head(names))
             THEN << Call("systemctl is-active", Head(names), "") >> ELSE << >>)
         \o systemctl_calls(w, Tail(names))

\* pgrep -af Runner ran and exited 0: its stdout lines
pgrep_af_Runner(w) ==
    IF "pgrep" \in w.down THEN {} ELSE { l \in w.procs : l.runner }

batch_check_running_processes(w, paths) ==
    [ p \in { paths[i] : i \in 1..Len(paths) } |->
        \E l \in pgrep_af_Runner(w) : Contains(l.text, p) ]

\* (mutant) the marker file is looked at before the process map
check_runner_status_fallback_cached_marker_first(w, runner_path, running_processes) ==
    IF runner_path \in w.markers THEN "Inactive"
    ELSE IF Lookup(running_processes, runner_path, FALSE) THEN "Active"
    ELSE "NotFound"

check_runner_status_fallback_cached(w, runner_path, running_processes) ==
    IF Lookup(running_processes, runner_path, FALSE) THEN "Active"
    ELSE IF runner_path \in w.markers THEN "Inactive"
    ELSE "NotFound"

\* (mutant) the process map and the marker are consulted before the cache
get_linux_service_status_cached_fallback_first(w, service_name, runner_path, systemctl_cache, running_processes) ==
    LET status_str == Lookup(systemctl_cache, service_name, "none")
        fallback   == check_runner_status_fallback_cached(w, runner_path,
                                                          running_processes)
    IN  IF fallback # "NotFound" THEN fallback
        ELSE IF status_str = "active" THEN "Active"
        ELSE IF status_str = "inactive" THEN "Inactive"
        ELSE IF status_str = "failed" THEN "Failed"
        ELSE "NotFound"

\* (mutant) a cached state that is not one of the three is shown as Inactive
get_linux_service_status_cached_unknown_inactive(w, service_name, runner_path, systemctl_cache, running_processes) ==
    LET status_str == Lookup(systemctl_cache, service_name, "none") IN
    IF status_str = "active" THEN "Active"
    ELSE IF status_str = "inactive" THEN "Inactive"
    ELSE IF status_str = "failed" THEN "Failed"
    ELSE IF status_str # "none" THEN "Inactive"
    ELSE check_runner_status_fallback_cached(w, runner_path, running_processes)

get_linux_service_status_cached(w, service_name, runner_path, systemctl_cache, running_processes) ==
    LET status_str == Lookup(systemctl_cache, service_name, "none") IN
    IF status_str = "active" THEN "Active"
    ELSE IF status_str = "inactive" THEN "Inactive"
    ELSE IF status_str = "failed" THEN "Failed"
    ELSE check_runner_status_fallback_cached(w, runner_path, running_processes)

\* launchctl list <name>: None is "none"
check_launchctl_exact_service(w, service_name) ==
    LET a == Lookup(w.agent, service_name, "absent") IN
    IF "launchctl" \in w.down \/ a = "absent" \/ a = "empty" THEN "none"
    ELSE IF a = "pid" THEN "Active"
    ELSE "Inactive"

\* launchctl list: Option<String>, the lines of the output when Some
get_all_launchctl_services(w) ==
    IF "launchctl" \in w.down THEN [ some |-> FALSE, lines |-> {} ]
    ELSE [ some |-> TRUE, lines |-> w.listing ]

check_launchctl_partial_match_cached(runner_path, launchctl_output) ==
    LET parent_dir == file_name(parent(runner_path)) IN
    IF \E line \in launchctl_output :
          /\ Contains(line.label, SubSeq(ServicePrefix, 1, Len(ServicePrefix) - 1))
          /\ Contains(line.label, parent_dir)
          /\ line.pid
    THEN "Active" ELSE "none"

get_macos_service_status_cached(w, service_name, runner_path, launchctl_output, running_processes) ==
    LET exact   == check_launchctl_exact_service(w, service_name)
        partial == IF ~ launchctl_output.some THEN "none"
                   ELSE check_launchctl_partial_match_cached(runner_path,
                                                      launchctl_output.lines)
    IN  IF exact # "none" THEN exact
        ELSE IF partial # "none" THEN partial
        ELSE check_runner_status_fallback_cached(w, runner_path, running_processes)

\* check_systemd_service_status: None is "none"
check_systemd_service_status(w, service_name) ==
    LET status == Lookup(w.unit, service_name, "absent") IN
    IF ~ systemctl_unit_exists(w, service_name) \/ service_name \in w.nostate
    THEN "none"
    ELSE IF status = "active" THEN "Active"
    ELSE IF status = "inactive" THEN "Inactive"
    ELSE IF status = "failed" THEN "Failed"
    ELSE "none"

\* is_runner_process_running: pgrep -f over four patterns, the last of which
\* is the path alone; for paths without regular-expression operators
is_runner_process_running(w, runner_path) ==
    /\ validate_path(runner_path).ok
    /\ "pgrep" \notin w.down
    /\ \E l \in w.procs : Contains(l.text, runner_path)

check_runner_status_fallback(w, runner_path) ==
    IF is_runner_process_running(w, runner_path) THEN "Active"
    ELSE IF runner_path \in w.markers THEN "Inactive"
    ELSE "NotFound"

get_linux_service_status(w, service_name, runner_path) ==
    LET status == check_systemd_service_status(w, service_name) IN
    IF status # "none" THEN status
    ELSE check_runner_status_fallback(w, runner_path)

check_launchctl_partial_match(w, runner_path) ==
    LET launchctl_output == get_all_launchctl_services(w) IN
    IF ~ launchctl_output.some THEN "none"
    ELSE check_launchctl_partial_match_cached(runner_path, launchctl_output.lines)

get_macos_service_status(w, service_name, runner_path) ==
    LET exact   == check_launchctl_exact_service(w, service_name)
        partial == check_launchctl_partial_match(w, runner_path)
    IN  IF exact # "none" THEN exact
        ELSE IF partial # "none" THEN partial
        ELSE check_runner_status_fallback(w, runner_path)

\* get_service_status: the per-runner probe discovery makes
get_service_status(os, w, service_name, runner_path) ==
    IF os = "macos" THEN get_macos_service_status(w, service_name, runner_path)
    ELSE get_linux_service_status(w, service_name, runner_path)

RECURSIVE launchctl_calls(_)
launchctl_calls(rs) ==
    IF rs = << >> THEN << >>
    ELSE << Call("launchctl list", Head(rs).service_name, "") >>
         \o launchctl_calls(Tail(rs))

\* refresh_runners: the list it leaves behind
refresh_runners(os, w, rs) ==
    IF rs = << >> THEN rs
    ELSE
    LET runner_paths       == [ i \in 1..Len(rs) |-> rs[i].path ]
        running_processes  == batch_check_running_processes(w, runner_paths)
        launchctl_output   == get_all_launchctl_services(w)
        service_names      == [ i \in 1..Len(rs) |-> rs[i].service_name ]
        systemctl_statuses == get_all_systemctl_services(w, service_names)
    IN  IF os = "macos"
        THEN [ i \in 1..Len(rs) |->
                 [ rs[i] EXCEPT !.status =
                     get_macos_service_status_cached(w, rs[i].service_name,
                         rs[i].path, launchctl_output, running_processes) ] ]
        ELSE [ i \in 1..Len(rs) |->
                 [ rs[i] EXCEPT !.status =
                     get_linux_service_status_cached(w, rs[i].service_name,
                         rs[i].path, systemctl_statuses, running_processes) ] ]

\* refresh_runners: the external processes it invokes, in order
refresh_calls(os, w, rs) ==
    IF rs = << >> THEN << >>
    ELSE << Call("pgrep -af Runner", << >>, "") >>
         \o (IF os = "macos"
             THEN << Call("launchctl list", << >>, "") >> \o launchctl_calls(rs)
             ELSE systemctl_calls(w, [ i \in 1..Len(rs) |-> rs[i].service_name ]))

---------------------------------------------------------------------------
(* ActionController (runner.rs:460-710)                                    *)

\* (mutant) the action compared without regard to case
ALLOWED_ACTIONS_anycase == { "start", "stop", "restart", "Start" }

ALLOWED_ACTIONS == { "start", "stop", "restart" }

Ok(text)  == [ ok |-> TRUE,  text |-> text ]
Err(text) == [ ok |-> FALSE, text |-> text ]

\* No value yet (a call that has not returned)
NoResult == [ ok |-> FALSE, text |-> "none" ]
\* The checks let the call go on
Pass == [ ok |-> TRUE, text |-> "pass" ]

\* (mutant) the prefix of the service name is not checked
control_runner_checks_noprefix(runner, action) ==
    IF action \notin ALLOWED_ACTIONS
    THEN Err("Invalid action: {}")
    ELSE IF ~ \A i \in 1..Len(runner.service_name) :
                 LET c == runner.service_name[i] IN
                 is_alphanumeric(c) \/ c = "." \/ c = "-" \/ c = "_"
    THEN Err("Invalid service name format")
    ELSE Pass

\* The three checks at the head of control_runner: Pass, or the Err returned
control_runner_checks(runner, action) ==
    IF action \notin ALLOWED_ACTIONS
    THEN Err("Invalid action: {}")
    ELSE IF ~ \A i \in 1..Len(runner.service_name) :
                 LET c == runner.service_name[i] IN
                 is_alphanumeric(c) \/ c = "." \/ c = "-" \/ c = "_"
    THEN Err("Invalid service name format")
    ELSE IF ~ StartsWith(runner.service_name, ServicePrefix)
    THEN Err("Service name must start with 'actions.runner.'")
    ELSE Pass

\* How a spawned command can end: it could not be spawned, or it exited
Outcomes == { "spawn_err", "exit0", "exit_fail" }

\* handle_control_output, and the `?` on Command::output before it
handle_control_output(out) ==
    IF out = "spawn_err" THEN Err("io error")
    ELSE IF out = "exit0" THEN Ok("Successfully {}ed {}")
    ELSE Err("Failed to {} {}: {stderr}")

\* Whether tier 1 applies: systemctl_unit_exists, or the plist file exists
tier1_registered(os, w, runner) ==
    IF os = "macos" THEN runner.service_name \in w.plists
    ELSE systemctl_unit_exists(w, runner.service_name)

\* The tier-1 command of try_systemctl_control / try_launchctl_control
tier1_command(os, action) ==
    IF os = "macos"
    THEN CASE action = "restart" -> "launchctl kickstart -k"
           [] action = "start"   -> "launchctl load"
           [] action = "stop"    -> "launchctl unload"
           [] OTHER              -> "invalid"
    ELSE "sudo systemctl"

\* run_script: with sudo on Linux, without on macOS
svc_command(os) == IF os = "macos" THEN "svc.sh" ELSE "sudo svc.sh"

\* Duration::from_secs(5) and the 100 ms sleep of the polling loop, in units
\* of one sleep
RestartTimeout == 50
\* How long one slow liveness check (up to four pgrep runs) is taken to last
SlowCheck == 20

\* (mutant) the loop is left with `break` when the time is up
restart_wait_step_break(live, e) ==
    IF ~ live THEN "restart_spawn"
    ELSE IF e > RestartTimeout THEN "restart_spawn"
    ELSE "poll"

\* (mutant) the result of the liveness check is not looked at
restart_wait_step_nowait(live, e) ==
    IF e > RestartTimeout THEN "timeout" ELSE "restart_spawn"

\* restart_runner_process, one turn of its while loop, after the liveness
\* check returned `live` and start.elapsed() read `e`: where the call goes
restart_wait_step(live, e) ==
    IF ~ live THEN "restart_spawn"
    ELSE IF e > RestartTimeout THEN "timeout"
    ELSE "poll"

\* control_runner_direct after validate_path: the arm of `match action`
direct_arm(action) ==
    CASE action = "start"   -> "start_spawn"
      [] action = "stop"    -> "stop_pkill"
      [] action = "restart" -> "restart_pkill"
      [] OTHER              -> "invalid"

ctlFrame == UNCHANGED << platform, chanVars, workVars, appVars, prbVars, histVars >>

CtlReturn(result) == c_pc' = "done" /\ c_result' = result

\* control_runner, lines 465-491
CtlChecks ==
    /\ c_pc = "check"
    /\ LET v == control_runner_checks(c_runner, c_action) IN
         IF v = Pass THEN c_pc' = "tier1" /\ UNCHANGED c_result
         ELSE CtlReturn(v)
    /\ UNCHANGED << world, calls, c_runner, c_action, c_elapsed >>
    /\ ctlFrame

\* try_systemctl_control / try_launchctl_control: is the unit registered
CtlTier1Exists ==
    /\ c_pc = "tier1"
    /\ calls' = IF platform = "macos" THEN calls
                ELSE Append(calls, Call("systemctl cat", c_runner.service_name, ""))
    /\ c_pc' = IF tier1_registered(platform, world, c_runner)
               THEN "tier1_run" ELSE "tier2"
    /\ UNCHANGED << world, c_runner, c_action, c_result, c_elapsed >>
    /\ ctlFrame

\* (mutant) a native command that exits non-zero hands over to tier 2
CtlTier1Run_fallback ==
    /\ c_pc = "tier1_run"
    /\ IF tier1_command(platform, c_action) = "invalid"
       THEN CtlReturn(Err("Invalid action")) /\ UNCHANGED calls
       ELSE \E out \in Outcomes :
         /\ calls' = Append(calls, Call(tier1_command(platform, c_action),
                                        c_runner.service_name, out))
         /\ IF out = "exit_fail" THEN c_pc' = "tier2" /\ UNCHANGED c_result
            ELSE CtlReturn(handle_control_output(out))
    /\ UNCHANGED << world, c_runner, c_action, c_elapsed >>
    /\ ctlFrame

\* try_systemctl_control / try_launchctl_control: the native command
CtlTier1Run ==
    /\ c_pc = "tier1_run"
    /\ IF tier1_command(platform, c_action) = "invalid"
       THEN CtlReturn(Err("Invalid action")) /\ UNCHANGED calls
       ELSE \E out \in Outcomes :
         /\ calls' = Append(calls, Call(tier1_command(platform, c_action),
                                        c_runner.service_name, out))
         /\ CtlReturn(handle_control_output(out))
    /\ UNCHANGED << world, c_runner, c_action, c_elapsed >>
    /\ ctlFrame

\* try_svc_script_control, lines 570-578: does svc.sh exist
CtlTier2Exists ==
    /\ c_pc = "tier2"
    /\ c_pc' = IF c_runner.path \notin world.svc THEN "tier3"
               ELSE IF c_action = "start" THEN "svc_status"
               ELSE "svc_run"
    /\ UNCHANGED << world, calls, c_runner, c_action, c_result, c_elapsed >>
    /\ ctlFrame

\* needs_service_installation: svc.sh status
CtlSvcStatus ==
    /\ c_pc = "svc_status"
    /\ \E out \in { "spawn_err", "not installed", "installed" } :
         /\ calls' = Append(calls, Call(svc_command(platform),
                                        << c_runner.path, "status" >>, out))
         /\ c_pc' = IF out = "installed" THEN "svc_run" ELSE "svc_install"
    /\ UNCHANGED << world, c_runner, c_action, c_result, c_elapsed >>
    /\ ctlFrame

\* (mutant) the exit status of svc.sh install is not looked at
CtlSvcInstall_ignored ==
    /\ c_pc = "svc_install"
    /\ \E out \in Outcomes :
         /\ calls' = Append(calls, Call(svc_command(platform),
                                        << c_runner.path, "install" >>, out))
         /\ IF out = "spawn_err" THEN CtlReturn(Err("io error"))
            ELSE c_pc' = "svc_run" /\ UNCHANGED c_result
    /\ UNCHANGED << world, c_runner, c_action, c_elapsed >>
    /\ ctlFrame

\* install_service: svc.sh install
CtlSvcInstall ==
    /\ c_pc = "svc_install"
    /\ \E out \in Outcomes :
         /\ calls' = Append(calls, Call(svc_command(platform),
                                        << c_runner.path, "install" >>, out))
         /\ IF out = "spawn_err" THEN CtlReturn(Err("io error"))
            ELSE IF out = "exit_fail"
            THEN CtlReturn(Err("Failed to install service for {}: {stderr}"))
            ELSE c_pc' = "svc_run" /\ UNCHANGED c_result
    /\ UNCHANGED << world, c_runner, c_action, c_elapsed >>
    /\ ctlFrame

\* try_svc_script_control, lines 580-581: svc.sh <action>
CtlSvcRun ==
    /\ c_pc = "svc_run"
    /\ \E out \in Outcomes :
         /\ calls' = Append(calls, Call(svc_command(platform),
                                        << c_runner.path, c_action >>, out))
         /\ CtlReturn(handle_control_output(out))
    /\ UNCHANGED << world, c_runner, c_action, c_elapsed >>
    /\ ctlFrame

\* control_runner_direct, lines 623-648
CtlDirect ==
    /\ c_pc = "tier3"
    /\ LET v == validate_path(c_runner.path) IN
         IF ~ v.ok THEN CtlReturn(Err(v.err))
         ELSE IF direct_arm(c_action) = "invalid"
         THEN CtlReturn(Err("Invalid action: {}"))
         ELSE c_pc' = direct_arm(c_action) /\ UNCHANGED c_result
    /\ UNCHANGED << world, calls, c_runner, c_action, c_elapsed >>
    /\ ctlFrame

\* control_runner_direct, the "start" arm: nohup run.sh, spawned detached
CtlStartSpawn ==
    /\ c_pc = "start_spawn"
    /\ \E out \in { "spawn_err", "spawned" } :
         /\ calls' = Append(calls, Call("nohup run.sh", c_runner.path, out))
         /\ CtlReturn(IF out = "spawned" THEN Ok("Started {}")
                      ELSE Err("Failed to start runner {}"))
    /\ UNCHANGED << world, c_runner, c_action, c_elapsed >>
    /\ ctlFrame

\* stop_runner_process: the exit status of pkill is not looked at
CtlStopPkill ==
    /\ c_pc = "stop_pkill"
    /\ \E out \in Outcomes :
         /\ calls' = Append(calls, Call("pkill -f", c_runner.path, out))
         /\ CtlReturn(IF out = "spawn_err" THEN Err("Failed to stop runner {}")
                      ELSE Ok("Stopped {}"))
    /\ UNCHANGED << world, c_runner, c_action, c_elapsed >>
    /\ ctlFrame

\* restart_runner_process, lines 667-676: pkill, its result dropped
CtlRestartPkill ==
    /\ c_pc = "restart_pkill"
    /\ \E out \in Outcomes :
         calls' = Append(calls, Call("pkill -f", c_runner.path, out))
    /\ c_pc' = "poll"
    /\ c_elapsed' = 0
    /\ UNCHANGED << world, c_runner, c_action, c_result >>
    /\ ctlFrame

\* restart_runner_process, lines 677-685: one turn of the polling loop. The
\* liveness check (its pgrep runs are recorded as one call) lasts no time or
\* SlowCheck; the sleep lasts one unit.
CtlPoll ==
    /\ c_pc = "poll"
    /\ \E d \in { 0, SlowCheck } :
         LET live == is_runner_process_running(world, c_runner.path)
             e    == c_elapsed + d
             to   == restart_wait_step(live, e)
         IN  /\ calls' = Append(calls, Call("pgrep -f", c_runner.path,
                                            IF live THEN "live" ELSE "gone"))
             /\ IF to = "timeout"
                THEN /\ CtlReturn(Err("Timeout waiting for runner {} to stop"))
                     /\ c_elapsed' = e
                ELSE /\ c_pc' = to
                     /\ c_elapsed' = IF to = "poll" THEN e + 1 ELSE e
                     /\ UNCHANGED c_result
    /\ UNCHANGED << world, c_runner, c_action >>
    /\ ctlFrame

\* restart_runner_process, lines 687-693: nohup run.sh, spawned detached
CtlRestartSpawn ==
    /\ c_pc = "restart_spawn"
    /\ \E out \in { "spawn_err", "spawned" } :
         /\ calls' = Append(calls, Call("nohup run.sh", c_runner.path, out))
         /\ CtlReturn(IF out = "spawned" THEN Ok("Restarted {}")
                      ELSE Err("Failed to restart runner {}"))
    /\ UNCHANGED << world, c_runner, c_action, c_elapsed >>
    /\ ctlFrame

\* The host: the runner's processes exit while the call is running
EnvProcExit ==
    /\ c_pc \notin { "idle", "done" }
    /\ \E l \in world.procs : Contains(l.text, c_runner.path)
    /\ world' = [ world EXCEPT !.procs =
                     { l \in @ : ~ Contains(l.text, c_runner.path) } ]
    /\ UNCHANGED << calls, ctlVars >>
    /\ ctlFrame

---------------------------------------------------------------------------
(* Values the components not under study are parked at                     *)

NoRunner == [ repo |-> << >>, number |-> 0, status |-> "NotFound",
              service_name |-> << >>, path |-> << >> ]
NoCmd    == [ kind |-> "none", id |-> 0, runner_index |-> 0, action |-> "" ]

ChanParked == /\ command_q = << >> /\ response_q = << >>
              /\ tx_alive = FALSE /\ rx_alive = FALSE
WorkParked == /\ w_pc = "parked" /\ w_runners = << >>
              /\ w_cmd = NoCmd /\ w_msg = NoResult
AppParked  == /\ runners = << >> /\ selected = 0 /\ status_message = "None"
              /\ mode = "Normal" /\ should_quit = FALSE /\ ui_pc = "parked"
CtlParked  == /\ c_pc = "idle" /\ c_runner = NoRunner /\ c_action = "none"
              /\ c_result = NoResult /\ c_elapsed = 0
PrbParked  == /\ p_runners = << >> /\ p_done = FALSE
              /\ d_runners = << >> /\ d_result = NoResult
HistParked == /\ h_sent = << >>
              /\ h_ctl = << >> /\ h_cmds = << >>

---------------------------------------------------------------------------
(* SpecControl: one call of control_runner, on any runner and action       *)

RepoA      == << "r", "A" >>
RepoB      == << "r", "B" >>
\* A repository directory whose name holds a shell metacharacter
RepoSemi   == << "r", ";" >>
\* A repository directory whose name holds a non-ASCII letter
RepoAccent == << "r", "U+00E9" >>
\* A slot directory whose name is no number and holds a metacharacter
SlotSemi   == << "a", ";" >>

CtlRunners ==
    { Runner(RepoA, 1, << "1" >>, "NotFound"),
      Runner(RepoA, 0, SlotSemi, "NotFound"),
      Runner(RepoSemi, 1, << "1" >>, "NotFound"),
      Runner(RepoAccent, 1, << "1" >>, "NotFound"),
      \* a Runner value built by hand: the fields are public
      [ Runner(RepoA, 1, << "1" >>, "NotFound")
          EXCEPT !.service_name = << "s", "s", "h", "." >> \o RepoA ] }

CtlActions == { "start", "stop", "restart", "delete", "Start", "" }

\* A live process of the runner in directory `path`
ProcOf(path) == [ runner |-> TRUE, text |-> path \o << "/", "b", "i", "n" >> ]

\* The hosts a call can meet: the unit registered or not, svc.sh there or
\* not, the runner's process alive or not
CtlWorlds(r) ==
    { [ EmptyWorld EXCEPT
          !.unit   = IF reg THEN (r.service_name :> "active") ELSE << >>,
          !.plists = IF reg THEN { r.service_name } ELSE {},
          !.svc    = IF svc THEN { r.path } ELSE {},
          !.procs  = IF alive THEN { ProcOf(r.path) } ELSE {} ]
      : reg \in BOOLEAN, svc \in BOOLEAN, alive \in BOOLEAN }

InitControl ==
    /\ platform \in { "linux", "macos" }
    /\ c_runner \in CtlRunners
    /\ c_action \in CtlActions
    /\ world \in CtlWorlds(c_runner)
    /\ calls = << >>
    /\ c_pc = "check" /\ c_result = NoResult /\ c_elapsed = 0
    /\ ChanParked /\ WorkParked /\ AppParked /\ PrbParked /\ HistParked

NextControl ==
    \/ CtlChecks
    \/ CtlTier1Exists
    \/ CtlTier1Run
    \/ CtlTier2Exists
    \/ CtlSvcStatus
    \/ CtlSvcInstall
    \/ CtlSvcRun
    \/ CtlDirect
    \/ CtlStartSpawn
    \/ CtlStopPkill
    \/ CtlRestartPkill
    \/ CtlPoll
    \/ CtlRestartSpawn
    \/ EnvProcExit

SpecControl == InitControl /\ [][NextControl]_vars

---------------------------------------------------------------------------
(* Claims on control_runner (SpecControl)                                  *)

ValidationTexts == { "Invalid action: {}", "Invalid service name format",
                     "Service name must start with 'actions.runner.'",
                     "Invalid path: contains shell metacharacter" }

ReturnedValidationError == ~ c_result.ok /\ c_result.text \in ValidationTexts

Issued(cmd) == \E i \in 1..Len(calls) : calls[i].cmd = cmd

\* C4: an action other than exactly "start", "stop" or "restart" makes
\* control_runner return the invalid-action error, with no subprocess spawned
\* and no existence check made, whatever the runner.
C4_InvalidActionRejected ==
    c_action \notin { "start", "stop", "restart" } =>
        /\ calls = << >>
        /\ c_pc \in { "check", "done" }
        /\ (c_pc = "done" => c_result = Err("Invalid action: {}"))

C4_Witness ==
    /\ c_pc = "done"
    /\ c_action = "Start"
    /\ c_runner = Runner(RepoA, 1, << "1" >>, "NotFound")
    /\ c_runner.service_name \in DOMAIN world.unit
    /\ c_result = Err("Invalid action: {}")
    /\ calls = << >>

\* The characters the interface allows in a serviceName: [A-Za-z0-9._-]
InAllowedClass(c) == c \in AsciiLetters \cup AsciiDigits \cup { ".", "_", "-" }

\* C5: a runner whose serviceName holds a character outside [A-Za-z0-9._-]
\* is rejected with a validation error before any subprocess is spawned.
C5_NameOutsideClassRejected ==
    (\E i \in 1..Len(c_runner.service_name) :
        ~ InAllowedClass(c_runner.service_name[i])) =>
        /\ calls = << >>
        /\ (c_pc = "done" => ReturnedValidationError)

\* C6: a control action on a runner whose path holds a deny-listed shell
\* metacharacter ends in a validation error and issues no subprocess at all.
C6_BadPathNoSubprocess ==
    (\E c \in DANGEROUS_CHARS : ContainsChar(c_runner.path, c)) =>
        /\ calls = << >>
        /\ (c_pc = "done" => ReturnedValidationError)

\* The call is a tier-3 restart that has sent its terminate signal
InRestartWait ==
    /\ c_action = "restart"
    /\ c_pc \in { "poll", "restart_spawn", "done" }
    /\ Issued("pkill -f")

EveryCheckSaidLive ==
    \A i \in 1..Len(calls) : calls[i].cmd = "pgrep -f" => calls[i].out = "live"

\* C8: in a tier-3 restart in which every liveness check reports the process
\* running, the launch script is never spawned, the wait does not go on once
\* the ceiling has passed, and the call returns the timeout error, which is
\* neither the spawn-failure error nor the exit-code error.
C8_RestartTimesOut ==
    (InRestartWait /\ EveryCheckSaidLive) =>
        /\ ~ Issued("nohup run.sh")
        /\ c_pc # "restart_spawn"
        /\ (c_pc = "poll" => c_elapsed <= RestartTimeout + 1)
        /\ (c_pc = "done" =>
              /\ c_result = Err("Timeout waiting for runner {} to stop")
              /\ c_elapsed > RestartTimeout
              /\ c_result \notin { Err("Failed to restart runner {}"),
                                   handle_control_output("spawn_err"),
                                   handle_control_output("exit_fail") })

C8_Witness ==
    /\ InRestartWait /\ EveryCheckSaidLive
    /\ c_pc = "done"
    /\ Issued("pgrep -f")
    /\ c_result = Err("Timeout waiting for runner {} to stop")

\* C9: in a tier-3 restart the launch script is spawned only after pkill has
\* been invoked and directly after a liveness check that reported the process
\* not running.
C9_SpawnAfterTerminateAndExit ==
    c_action = "restart" =>
        \A i \in 1..Len(calls) :
            calls[i].cmd = "nohup run.sh" =>
                /\ \E j \in 1..(i - 1) : calls[j].cmd = "pkill -f"
                /\ i > 1
                /\ calls[i - 1].cmd = "pgrep -f"
                /\ calls[i - 1].out = "gone"

C9_Witness ==
    /\ c_action = "restart"
    /\ c_pc = "done"
    /\ c_result = Ok("Restarted {}")
    /\ \E i \in 1..Len(calls) : calls[i].cmd = "pgrep -f" /\ calls[i].out = "live"
    /\ calls[Len(calls)].cmd = "nohup run.sh"

\* The commands of the three tiers, as `calls` names them
Tier1Commands == { "sudo systemctl", "launchctl kickstart -k", "launchctl load",
                   "launchctl unload" }
Tier2Commands == { "svc.sh", "sudo svc.sh" }
Tier3Commands == { "pkill -f", "pgrep -f", "nohup run.sh" }

TierOf(cmd) == IF cmd \in Tier1Commands THEN 1
               ELSE IF cmd \in Tier2Commands THEN 2
               ELSE IF cmd \in Tier3Commands THEN 3
               ELSE 0

\* The tiers that have issued a command so far
TiersUsed == { TierOf(calls[i].cmd) : i \in 1..Len(calls) } \ { 0 }

\* The host has the managed unit of the runner under control registered
UnitRegistered ==
    IF platform = "macos" THEN c_runner.service_name \in world.plists
    ELSE Lookup(world.unit, c_runner.service_name, "absent") # "absent"

ScriptExists == c_runner.path \in world.svc

\* The first tier that applies to the runner under control
FirstTier == IF UnitRegistered THEN 1 ELSE IF ScriptExists THEN 2 ELSE 3

CallsOfTier(t) == { i \in 1..Len(calls) : TierOf(calls[i].cmd) = t }

\* C24: a control call issues commands of one tier only, the first that
\* applies: with the unit registered the native command alone, once, and the
\* call returns what that command gave, success or failure; the control
\* script only with no unit registered and the script present; direct process
\* control only with neither.
C24_ExactlyOneTier ==
    /\ TiersUsed \subseteq { FirstTier }
    /\ Cardinality(CallsOfTier(1)) <= 1
    /\ \A i \in CallsOfTier(1) :
          /\ i = Len(calls)
          /\ c_pc = "done"
          /\ c_result = (IF calls[i].out = "exit0" THEN Ok("Successfully {}ed {}")
                         ELSE IF calls[i].out = "exit_fail"
                         THEN Err("Failed to {} {}: {stderr}")
                         ELSE Err("io error"))

\* The native command failed with the control script present: the failure is
\* returned and neither the script nor a process command was run
C24_Witness ==
    /\ c_pc = "done"
    /\ UnitRegistered /\ ScriptExists
    /\ c_action = "restart"
    /\ Len(calls) >= 1
    /\ calls[Len(calls)].out = "exit_fail"
    /\ TiersUsed = { 1 }
    /\ c_result = Err("Failed to {} {}: {stderr}")

\* The calls of the control script with the verb `verb`
ScriptCalls(verb) ==
    { i \in CallsOfTier(2) : calls[i].arg = << c_runner.path, verb >> }

\* C25: in tier 2 a start probes the script's status first; install runs
\* exactly when the probe reported not installed or could not be run, before
\* the start verb; when install exits non-zero the call fails and the start
\* verb is never invoked; stop and restart run neither the probe nor install.
C25_InstallBeforeStart ==
    /\ c_action # "start" => ScriptCalls("status") \cup ScriptCalls("install") = {}
    /\ c_action = "start" =>
          /\ \A i \in CallsOfTier(2) :
                (\A j \in CallsOfTier(2) : i <= j) => i \in ScriptCalls("status")
          /\ \A i \in ScriptCalls("install") :
                /\ i - 1 \in ScriptCalls("status")
                /\ calls[i - 1].out \in { "not installed", "spawn_err" }
                /\ calls[i].out # "exit0" =>
                      /\ c_pc = "done" /\ ~ c_result.ok
                      /\ ScriptCalls("start") = {}
          /\ \A i \in ScriptCalls("status") :
                (calls[i].out # "installed" /\ c_pc = "done")
                => i + 1 \in ScriptCalls("install")
          /\ \A i \in ScriptCalls("start") :
                \/ i - 1 \in ScriptCalls("status") /\ calls[i - 1].out = "installed"
                \/ i - 1 \in ScriptCalls("install") /\ calls[i - 1].out = "exit0"

\* The probe reported not installed and install exited non-zero
C25_Witness ==
    /\ c_pc = "done" /\ c_action = "start"
    /\ \E i \in ScriptCalls("status") : calls[i].out = "not installed"
    /\ \E i \in ScriptCalls("install") : calls[i].out = "exit_fail"
    /\ ScriptCalls("start") = {}
    /\ c_result = Err("Failed to install service for {}: {stderr}")

\* The calls that performed the action and ran to a non-zero exit: the native
\* command, the control script's install and action verbs, the pkill of stop
FailedActionCalls ==
    { i \in 1..Len(calls) :
        /\ calls[i].out = "exit_fail"
        /\ \/ TierOf(calls[i].cmd) = 1
           \/ i \in ScriptCalls("install") \cup ScriptCalls(c_action)
           \/ calls[i].cmd = "pkill -f" /\ c_action = "stop" }

\* The error texts that carry the standard error of the failed command
DiagnosticTexts == { "Failed to {} {}: {stderr}",
                     "Failed to install service for {}: {stderr}" }

\* C26: in every tier, when a subprocess that performed the action ran and
\* exited non-zero (the pkill of a tier-3 stop included), control_runner
\* returns an error carrying the captured diagnostic output, never a success
\* message.
C26_NonZeroExitIsAnError ==
    (c_pc = "done" /\ FailedActionCalls # {}) =>
        /\ ~ c_result.ok
        /\ c_result.text \in DiagnosticTexts

\* C28: a runner whose serviceName does not start with "actions.runner." is
\* rejected with a validation error, before any subprocess and any existence
\* check, also when the action is allowed and every character is allowed.
C28_PrefixRequired ==
    ~ StartsWith(c_runner.service_name,
                 << "a", "c", "t", "i", "o", "n", "s", ".",
                    "r", "u", "n", "n", "e", "r", "." >>) =>
        /\ calls = << >>
        /\ c_pc \in { "check", "done" }
        /\ (c_pc = "done" => ReturnedValidationError)

\* An allowed action on a name of allowed characters without the prefix, on
\* a host where a unit of that name is registered
C28_Witness ==
    /\ c_pc = "done"
    /\ c_action = "start"
    /\ c_runner.service_name = << "s", "s", "h", "." >> \o RepoA
    /\ \A i \in 1..Len(c_runner.service_name) : InAllowedClass(c_runner.service_name[i])
    /\ UnitRegistered
    /\ calls = << >>
    /\ c_result = Err("Service name must start with 'actions.runner.'")

---------------------------------------------------------------------------
(* SpecProbe: one call of refresh_runners, on lists of every length up to  *)
(* MaxRunners and on every host of ProbeWorlds                             *)

MaxRunners == 2

\* The runners of slots 1..n of one repository, as discovery lists them
SlotList(n) == [ i \in 1..n |-> Runner(RepoA, i, Decimal(i), "NotFound") ]

NamesOf(rs) == { rs[i].service_name : i \in 1..Len(rs) }
PathsOf(rs) == { rs[i].path : i \in 1..Len(rs) }

ProbeWorlds(os, rs) ==
    { [ EmptyWorld EXCEPT
          !.unit    = IF os = "linux" THEN st ELSE << >>,
          !.agent   = IF os = "macos" THEN st ELSE << >>,
          !.listing = IF os = "macos" /\ rs # << >> /\ listed
                      THEN { [ pid |-> TRUE, label |-> rs[1].service_name ] }
                      ELSE {},
          !.procs   = { ProcOf(q) : q \in ps },
          !.markers = ms,
          !.down    = d,
          !.nostate = ns ]
      : st \in [ NamesOf(rs) -> IF os = "linux" THEN UnitStates ELSE AgentStates ],
        listed \in IF os = "macos" THEN BOOLEAN ELSE { FALSE },
        ps \in SUBSET PathsOf(rs),
        ms \in SUBSET PathsOf(rs),
        d \in SUBSET { "pgrep", IF os = "linux" THEN "systemctl" ELSE "launchctl" },
        ns \in IF os = "linux"
               THEN { {} } \cup { { n } : n \in NamesOf(rs) }
               ELSE { {} } }

InitProbe ==
    /\ platform \in { "linux", "macos" }
    /\ \E n \in 0..MaxRunners : p_runners = SlotList(n)
    /\ world \in ProbeWorlds(platform, p_runners)
    /\ calls = << >>
    /\ p_done = FALSE
    /\ d_runners = << >> /\ d_result = NoResult
    /\ ChanParked /\ WorkParked /\ AppParked /\ CtlParked /\ HistParked

\* refresh_runners(&mut runners)
ProbeRun ==
    /\ ~ p_done
    /\ p_runners' = refresh_runners(platform, world, p_runners)
    /\ calls' = refresh_calls(platform, world, p_runners)
    /\ p_done' = TRUE
    /\ UNCHANGED << worldVars, chanVars, workVars, appVars, ctlVars, histVars,
                    d_runners, d_result >>

NextProbe == ProbeRun

SpecProbe == InitProbe /\ [][NextProbe]_vars

\* C7: the number of external process invocations of one refresh_runners
\* call does not depend on the number of runners: probing a list costs what
\* probing its first runner alone costs on the same host.
C7_ProbeCostIndependentOfN ==
    (p_done /\ Len(p_runners) >= 1) =>
        Len(calls) = Len(refresh_calls(platform, world, << p_runners[1] >>))

\* What the host's service manager answers about runner i of the probed list
UnitState(i) == Lookup(world.unit, p_runners[i].service_name, "absent")
AgentState(i) == Lookup(world.agent, p_runners[i].service_name, "absent")

\* The service manager answers both queries about runner i
ManagerAnswers(i) ==
    IF platform = "linux"
    THEN "systemctl" \notin world.down
         /\ p_runners[i].service_name \notin world.nostate
    ELSE "launchctl" \notin world.down

\* The batched process map marks the path of runner i as running
MarkedRunning(i) ==
    batch_check_running_processes(world,
        [ j \in 1..Len(p_runners) |-> p_runners[j].path ])[p_runners[i].path]

\* What the process map and the marker file alone say about runner i
TierB(i) ==
    IF MarkedRunning(i) THEN "Active"
    ELSE IF p_runners[i].path \in world.markers THEN "Inactive"
    ELSE "NotFound"

\* The same host with every process gone and every marker file removed or,
\* the other way round, with a process and a marker for every runner
WithoutTierB(w) == [ w EXCEPT !.procs = {}, !.markers = {} ]
WithAllTierB(w) ==
    [ w EXCEPT !.procs   = { ProcOf(q) : q \in PathsOf(p_runners) },
               !.markers = PathsOf(p_runners) ]

\* C15: on Linux, when systemctl reports that a runner's unit exists and
\* that its state is active, inactive or failed, the probe gives the runner
\* Active, Inactive or Failed respectively, and gives it the same status on
\* the hosts that differ only in processes and marker files: the process
\* map and the marker are not consulted for that runner.
C15_ReportedUnitStateWins ==
    (p_done /\ platform = "linux") =>
        \A i \in 1..Len(p_runners) :
            (ManagerAnswers(i) /\ UnitState(i) \in { "active", "inactive", "failed" })
            => /\ p_runners[i].status =
                      (CASE UnitState(i) = "active"   -> "Active"
                         [] UnitState(i) = "inactive" -> "Inactive"
                         [] UnitState(i) = "failed"   -> "Failed")
               /\ \A w \in { WithoutTierB(world), WithAllTierB(world) } :
                      refresh_runners(platform, w, p_runners)[i].status
                          = p_runners[i].status

\* Slot 1 active with no process and no marker, slot 2 failed with both
C15_Witness ==
    /\ p_done /\ platform = "linux" /\ Len(p_runners) = 2
    /\ world.down = {} /\ world.nostate = {}
    /\ UnitState(1) = "active" /\ UnitState(2) = "failed"
    /\ ~ MarkedRunning(1) /\ p_runners[1].path \notin world.markers
    /\ MarkedRunning(2) /\ p_runners[2].path \in world.markers
    /\ Statuses(p_runners) = << "Active", "Failed" >>

\* The service manager was asked and knows no unit for runner i
NoRegisteredUnit(i) ==
    IF platform = "linux"
    THEN "systemctl" \notin world.down /\ UnitState(i) = "absent"
    ELSE /\ "launchctl" \notin world.down
         /\ AgentState(i) = "absent"
         /\ check_launchctl_partial_match_cached(p_runners[i].path,
                                                 world.listing) = "none"

UnknownUnitState(i) ==
    /\ platform = "linux"
    /\ ManagerAnswers(i)
    /\ UnitState(i) \notin { "absent", "active", "inactive", "failed" }

\* C17: when the unit of a runner is registered and systemctl reports a state
\* other than active, inactive or failed, the runner gets what the process
\* map and the marker say; the status of every runner is one of Active,
\* Inactive, Failed, NotFound.
C17_UnknownStateFallsThrough ==
    p_done =>
        \A i \in 1..Len(p_runners) :
            /\ p_runners[i].status \in RunnerStatus
            /\ UnknownUnitState(i) => p_runners[i].status = TierB(i)

\* A unit in state "activating": without process and marker the runner is
\* NotFound, and next to it one with a marker only is Inactive
C17_Witness ==
    /\ p_done /\ Len(p_runners) = 2
    /\ UnknownUnitState(1) /\ UnknownUnitState(2)
    /\ ~ MarkedRunning(1) /\ p_runners[1].path \notin world.markers
    /\ ~ MarkedRunning(2) /\ p_runners[2].path \in world.markers
    /\ Statuses(p_runners) = << "NotFound", "Inactive" >>

\* A query about runner i to the service manager fails
ManagerFails(i) == ~ ManagerAnswers(i)

\* C18: refresh_runners always returns: whatever external queries fail (the
\* process listing, the existence query, the state query), the call can be
\* taken, it leaves the list with the same runners and a status for each; a
\* runner whose service manager query fails gets what the process map and
\* the marker say, a failed process listing marks no path as running, and a
\* runner for which every signal fails is NotFound.
C18_RefreshNeverFails ==
    /\ ~ p_done => ENABLED ProbeRun
    /\ p_done =>
        /\ Identities(p_runners) = Identities(SlotList(Len(p_runners)))
        /\ \A i \in 1..Len(p_runners) :
            /\ p_runners[i].status \in RunnerStatus
            /\ ManagerFails(i) => p_runners[i].status = TierB(i)
            /\ "pgrep" \in world.down => ~ MarkedRunning(i)
            /\ (/\ ManagerFails(i)
                /\ "pgrep" \in world.down
                /\ p_runners[i].path \notin world.markers)
               => p_runners[i].status = "NotFound"

\* Every command is down although slot 1 has an active unit and a live
\* process: slot 1 is NotFound, slot 2 with its marker is Inactive
C18_Witness ==
    /\ p_done /\ platform = "linux" /\ Len(p_runners) = 2
    /\ world.down = { "pgrep", "systemctl" }
    /\ UnitState(1) = "active"
    /\ \E l \in world.procs : Contains(l.text, p_runners[1].path)
    /\ world.markers = { p_runners[2].path }
    /\ Statuses(p_runners) = << "NotFound", "Inactive" >>

\* The existence query for the unit of runner i succeeds
ExistenceSucceeds(i) ==
    "systemctl" \notin world.down /\ UnitState(i) # "absent"

\* The positions in `calls` of the query `cmd` for the unit of runner i
QueriesFor(cmd, i) ==
    { k \in 1..Len(calls) :
        calls[k].cmd = cmd /\ calls[k].arg = p_runners[i].service_name }

\* C29: in a probe on Linux the state query for a service name comes
\* directly after the existence query for that name, and only when that one
\* succeeded; for a name whose existence query fails no state query is issued
\* and the runner gets what the process map and the marker say.
C29_StateQueryOnlyAfterExistence ==
    (p_done /\ platform = "linux") =>
        \A i \in 1..Len(p_runners) :
            /\ Cardinality(QueriesFor("systemctl cat", i)) = 1
            /\ \A k \in QueriesFor("systemctl is-active", i) :
                  ExistenceSucceeds(i) /\ k - 1 \in QueriesFor("systemctl cat", i)
            /\ ~ ExistenceSucceeds(i) =>
                  /\ QueriesFor("systemctl is-active", i) = {}
                  /\ p_runners[i].status = TierB(i)

\* No unit for slot 1, an active unit for slot 2: one state query, for slot 2
C29_Witness ==
    /\ p_done /\ platform = "linux" /\ Len(p_runners) = 2
    /\ ~ ExistenceSucceeds(1) /\ ExistenceSucceeds(2)
    /\ world.down = {}
    /\ QueriesFor("systemctl is-active", 1) = {}
    /\ QueriesFor("systemctl is-active", 2) = { Len(calls) }
    /\ p_runners[1].status = TierB(1)
    /\ p_runners[2].status = "Active"

---------------------------------------------------------------------------
(* Discovery (runner.rs:73-143)                                            *)

\* BYTE_FF stands for a byte 0xFF in a file name, which is not UTF-8
\* OsStr::to_str: Some when the name is valid UTF-8
to_str_ok(name) == ~ ContainsChar(name, "BYTE_FF")

\* The characters of the names discovery compares, in the order of their
\* UTF-8 encodings
CharOrder == << "+", "-", "0", "1", "2", "3", "4", "5", "6", "7", "8", "9",
                "A", "B", "R", "a", "c", "e", "h", "i", "n", "o", "p", "r",
                "s", "t", "u", "x", "U+00E9" >>
CharRank(c) == CHOOSE i \in 1..Len(CharOrder) : CharOrder[i] = c

\* String::cmp: -1, 0 or 1
RECURSIVE str_cmp(_, _)
str_cmp(a, b) ==
    IF a = << >> /\ b = << >> THEN 0
    ELSE IF a = << >> THEN -1
    ELSE IF b = << >> THEN 1
    ELSE IF Head(a) = Head(b) THEN str_cmp(Tail(a), Tail(b))
    ELSE IF CharRank(Head(a)) < CharRank(Head(b)) THEN -1 ELSE 1

DigitValue(c) == CHOOSE d \in 0..9 : Digit(d) = c

RECURSIVE DecimalValue(_)
DecimalValue(s) ==
    IF s = << >> THEN 0
    ELSE 10 * DecimalValue(SubSeq(s, 1, Len(s) - 1)) + DigitValue(s[Len(s)])

\* (mutant) only the number as Display writes it is taken: no sign, no
\* leading zero
parse_u32_canonical(s) ==
    IF \E n \in 0..9 : s = << Digit(n) >>
    THEN [ ok |-> TRUE, val |-> DigitValue(s[1]) ]
    ELSE [ ok |-> FALSE, val |-> 0 ]

RECURSIVE StripZeros(_)
StripZeros(s) ==
    IF Len(s) > 1 /\ Head(s) = "0" THEN StripZeros(Tail(s)) ELSE s

\* str::parse::<u32>: an optional "+", then ASCII digits. Numbers of more
\* than nine significant digits are beyond the integers of the model and
\* are all taken as overflowing, which numbers above u32::MAX do
parse_u32(s) ==
    LET digits == IF s # << >> /\ Head(s) = "+" THEN Tail(s) ELSE s IN
    IF \/ digits = << >>
       \/ \E i \in 1..Len(digits) : digits[i] \notin AsciiDigits
    THEN [ ok |-> FALSE, val |-> 0 ]
    ELSE IF Len(StripZeros(digits)) > 9
    THEN [ ok |-> FALSE, val |-> 0 ]
    ELSE [ ok |-> TRUE, val |-> DecimalValue(StripZeros(digits)) ]

\* get_service_status: the external processes it invokes; one "pgrep -f"
\* entry stands for one is_runner_process_running check
get_service_status_calls(os, w, service_name, runner_path) ==
    LET fallback == IF validate_path(runner_path).ok
                    THEN << Call("pgrep -f", runner_path,
                                 IF is_runner_process_running(w, runner_path)
                                 THEN "live" ELSE "dead") >>
                    ELSE << >>
    IN  IF os = "macos"
        THEN << Call("launchctl list", service_name, "") >>
             \o (IF check_launchctl_exact_service(w, service_name) # "none"
                 THEN << >>
                 ELSE << Call("launchctl list", << >>, "") >>
                      \o (IF check_launchctl_partial_match(w, runner_path) # "none"
                          THEN << >> ELSE fallback))
        ELSE << Call("systemctl cat", service_name, "") >>
             \o (IF systemctl_unit_exists(w, service_name)
                 THEN << Call("systemctl is-active", service_name, "") >>
                 ELSE << >>)
             \o (IF check_systemd_service_status(w, service_name) # "none"
                 THEN << >> ELSE fallback)

\* The names read_dir yields for a directory whose entries are `entries`,
\* in the order `order` ranks them
Listing(entries, order) ==
    SelectSeq(order, LAMBDA n : n \in DOMAIN entries /\ entries[n] # "absent")

\* discover_repo_runners, line 130
discovered_status(os, w, service_name, runner_path) ==
    get_service_status(os, w, service_name, runner_path)

\* discover_repo_runners, the body of its loop for the entries `names`: the
\* runners pushed and the external processes invoked
RECURSIVE repo_entries(_, _, _, _, _)
repo_entries(os, w, repo_name, sub, names) ==
    IF names = << >> THEN [ rs |-> << >>, calls |-> << >> ]
    ELSE
    LET name == Head(names)
        rest == repo_entries(os, w, repo_name, sub, Tail(names))
    IN  IF sub[name] # "runner" THEN rest
        ELSE
        LET runner_num   == IF to_str_ok(name) THEN parse_u32(name).val ELSE 0
            runner       == Runner(repo_name, runner_num, name, "NotFound")
            status       == discovered_status(os, w, runner.service_name,
                                              runner.path)
        IN  [ rs    |-> << [ runner EXCEPT !.status = status ] >> \o rest.rs,
              calls |-> get_service_status_calls(os, w, runner.service_name,
                                                 runner.path) \o rest.calls ]

\* discover_repo_runners: Err when read_dir(repo_path) fails
discover_repo_runners(os, w, repo_name, entry, sub_order) ==
    IF entry.kind = "unreadable"
    THEN [ ok |-> FALSE, rs |-> << >>, calls |-> << >> ]
    ELSE LET r == repo_entries(os, w, repo_name, entry.sub,
                               Listing(entry.sub, sub_order))
         IN  [ ok |-> TRUE, rs |-> r.rs, calls |-> r.calls ]

\* repo_path.file_name().and_then(|n| n.to_str()), lines 90-92
repo_name_of(repo_path_name) ==
    [ some |-> to_str_ok(repo_path_name), name |-> repo_path_name ]

\* discover_runners, the body of its loop for the entries `names`
RECURSIVE root_entries(_, _, _, _)
root_entries(os, w, names, sub_order) ==
    IF names = << >> THEN [ ok |-> TRUE, rs |-> << >>, calls |-> << >> ]
    ELSE
    LET entry == w.tree.top[Head(names)]
        repo  == repo_name_of(Head(names))
    IN  IF entry.kind = "file" THEN root_entries(os, w, Tail(names), sub_order)
        ELSE IF ~ repo.some \/ repo.name = << >>
        THEN root_entries(os, w, Tail(names), sub_order)
        ELSE
        LET here == discover_repo_runners(os, w, repo.name, entry, sub_order) IN
        IF ~ here.ok THEN [ ok |-> FALSE, rs |-> here.rs, calls |-> here.calls ]
        ELSE LET rest == root_entries(os, w, Tail(names), sub_order) IN
             [ ok    |-> rest.ok,
               rs    |-> here.rs \o rest.rs,
               calls |-> here.calls \o rest.calls ]

\* The comparison of the sort: a.repo.cmp(&b.repo).then_with(number)
runner_greater(a, b) ==
    \/ str_cmp(a.repo, b.repo) = 1
    \/ str_cmp(a.repo, b.repo) = 0 /\ a.number > b.number

\* Vec::sort_by, a stable sort: each runner goes behind those not greater
RECURSIVE sort_by(_)
sort_by(rs) ==
    IF rs = << >> THEN << >>
    ELSE LET sorted == sort_by(SubSeq(rs, 1, Len(rs) - 1))
             x      == rs[Len(rs)]
             k      == Cardinality({ j \in 1..Len(sorted) :
                                        ~ runner_greater(sorted[j], x) })
         IN  SubSeq(sorted, 1, k) \o << x >> \o SubSeq(sorted, k + 1, Len(sorted))

\* discover_runners: its result, the Vec when Ok, and the external processes
\* it invoked
discover_runners(os, w, top_order, sub_order) ==
    LET kinds == [ n \in DOMAIN w.tree.top |-> w.tree.top[n].kind ]
        r     == root_entries(os, w, Listing(kinds, top_order), sub_order)
    IN  IF w.tree.root = "nohome"
        THEN [ result |-> Err("Cannot find home directory"),
               rs |-> << >>, calls |-> << >> ]
        ELSE IF w.tree.root = "missing"
        THEN [ result |-> Ok("Vec"), rs |-> << >>, calls |-> << >> ]
        ELSE IF w.tree.root = "unreadable"
        THEN [ result |-> Err("io error"), rs |-> << >>, calls |-> << >> ]
        ELSE IF ~ r.ok
        THEN [ result |-> Err("io error"), rs |-> << >>, calls |-> r.calls ]
        ELSE [ result |-> Ok("Vec"), rs |-> sort_by(r.rs), calls |-> r.calls ]

---------------------------------------------------------------------------
(* SpecDiscover: one call of discover_runners, on every tree of DiscTrees  *)
(* and on two opposite orders in which read_dir can list the entries       *)

\* A repository directory whose name is not UTF-8
RepoRaw == << "r", "BYTE_FF" >>
\* A file in the root
ReadMe  == << "R", "e", "a" >>

MaxSlots == 1

TopNames  == { RepoA, RepoB, RepoRaw, ReadMe }
\* Slot directories named by a number, then one named with a leading zero
\* and one whose name is no number
NumSlots  == { Decimal(i) : i \in 1..MaxSlots }
OddSlots  == { << "0", "1" >>, << "x" >> }
SlotNames == NumSlots \cup OddSlots
SubKinds  == { "absent", "file", "dir", "runner", "nested" }

NoEntry     == [ kind |-> "absent", sub |-> [ n \in SlotNames |-> "absent" ] ]
FileEntry   == [ kind |-> "file", sub |-> [ n \in SlotNames |-> "absent" ] ]
LockedEntry == [ kind |-> "unreadable", sub |-> [ n \in SlotNames |-> "absent" ] ]
DirEntries(kinds, odd_kinds) ==
    { [ kind |-> "dir", sub |-> num @@ odd ]
      : num \in [ NumSlots -> kinds ], odd \in [ OddSlots -> odd_kinds ] }

\* The trees: a repository with entries of every kind and of every kind
\* itself, a second repository and one with a name that is not UTF-8, each
\* with runner directories or without, and a file. DirEntries takes the
\* kinds of the numbered slots and the kinds of the two other slots
DiscTrees ==
    { [ root |-> k, top |-> << >> ] : k \in { "nohome", "missing", "unreadable" } }
    \cup
    { [ root |-> "dir",
        top  |-> (RepoA :> a) @@ (RepoB :> b) @@ (RepoRaw :> c) @@ (ReadMe :> f) ]
      : a \in { NoEntry, FileEntry, LockedEntry }
               \cup DirEntries(SubKinds, { "absent", "runner" }),
        b \in { NoEntry } \cup DirEntries({ "absent", "runner" }, { "absent" }),
        c \in { NoEntry } \cup DirEntries({ "runner" }, { "absent" }),
        f \in { NoEntry, FileEntry } }

\* The directories of tree t that hold run.sh at depth two
MarkedDirs(t) ==
    { join(join(runners_dir, repo), slot) :
        << repo, slot >> \in { rs \in (DOMAIN t.top) \X SlotNames :
                                 /\ t.top[rs[1]].kind = "dir"
                                 /\ t.top[rs[1]].sub[rs[2]] = "runner" } }

\* The orders in which read_dir lists the entries: one order and its reverse
Reverse(s) == [ i \in 1..Len(s) |-> s[Len(s) + 1 - i] ]
Orders(s)  == { s, Reverse(s) }

TopOrders  == Orders(<< RepoA, ReadMe, RepoRaw, RepoB >>)
SlotOrders == Orders([ i \in 1..MaxSlots |-> Decimal(i) ] \o << << "0", "1" >>, << "x" >> >>)

InitDiscover ==
    /\ platform \in { "linux", "macos" }
    /\ \E t \in DiscTrees :
         \E ms \in { {}, MarkedDirs(t) } :
            world = [ EmptyWorld EXCEPT !.tree = t, !.markers = ms ]
    /\ calls = << >>
    /\ d_runners = << >> /\ d_result = NoResult
    /\ p_runners = << >> /\ p_done = FALSE
    /\ ChanParked /\ WorkParked /\ AppParked /\ CtlParked /\ HistParked

\* discover_runners()
DiscoverRun ==
    /\ d_result = NoResult
    /\ \E top_order \in TopOrders, sub_order \in SlotOrders :
         LET r == discover_runners(platform, world, top_order, sub_order) IN
         /\ d_result' = r.result
         /\ d_runners' = r.rs
         /\ calls' = r.calls
    /\ UNCHANGED << worldVars, chanVars, workVars, appVars, ctlVars, histVars,
                    p_runners, p_done >>

NextDiscover == DiscoverRun

SpecDiscover == InitDiscover /\ [][NextDiscover]_vars

\* C19: every Runner returned by discovery has status NotFound, and
\* discovery invokes no external process to probe a status.
C19_DiscoveryEmitsNotFound ==
    d_result.ok =>
        /\ \A i \in 1..Len(d_runners) : d_runners[i].status = "NotFound"
        /\ calls = << >>

\* C20: the list returned by discovery holds exactly one Runner for each
\* directory at depth two under the root that holds run.sh, and no other:
\* files at either level, depth-two directories without run.sh and deeper
\* directories give no Runner.
C20_OneRunnerPerMarkedDirectory ==
    d_result.ok =>
        /\ { d_runners[i].path : i \in 1..Len(d_runners) } = MarkedDirs(world.tree)
        /\ Len(d_runners) = Cardinality(MarkedDirs(world.tree))

\* The list is in ascending order of repo, then of number
SortedByRepoThenNumber(rs) ==
    \A i, j \in 1..Len(rs) :
        i < j => \/ str_cmp(rs[i].repo, rs[j].repo) = -1
                 \/ /\ rs[i].repo = rs[j].repo
                    /\ rs[i].number <= rs[j].number

\* What discover_runners returns on the same host when read_dir lists the
\* entries in the orders top_order and sub_order
Rediscovered(top_order, sub_order) ==
    discover_runners(platform, world, top_order, sub_order).rs

\* C21: the list returned by discovery is sorted by repo ascending, then by
\* number ascending, and a discovery of the same tree returns the same
\* runners in the same order whatever order read_dir lists the entries in.
C21_SortedAndOrderIndependent ==
    d_result.ok =>
        /\ SortedByRepoThenNumber(d_runners)
        /\ \A top_order \in TopOrders, sub_order \in SlotOrders :
              Identities(Rediscovered(top_order, sub_order)) = Identities(d_runners)

\* The number a slot directory name stands for, for the names of SlotNames:
\* one digit, with or without a zero before it; 0 for any other name
SlotNumber(slot) ==
    IF \E n \in 0..9 : slot \in { << Digit(n) >>, << "0", Digit(n) >> }
    THEN CHOOSE n \in 0..9 : slot \in { << Digit(n) >>, << "0", Digit(n) >> }
    ELSE 0

\* "actions.runner.<username>.<repo>-runner-<number>"
ServiceNameText(username, repo, number) ==
    << "a", "c", "t", "i", "o", "n", "s", ".", "r", "u", "n", "n", "e", "r", "." >>
    \o username \o << "." >> \o repo
    \o << "-", "r", "u", "n", "n", "e", "r", "-" >> \o Decimal(number)

IdentitySet(rs) == { Identity(rs[i]) : i \in 1..Len(rs) }

\* C22: every discovered runner has as repo the first path segment under
\* the root, as number its slot directory name parsed as an unsigned integer,
\* or 0 when the name does not parse, and as service name
\* "actions.runner.<username>.<repo>-runner-<number>"; runners with equal
\* repo and number have equal service names; and a discovery of the same
\* tree with another listing order returns the same identities.
C22_ServiceNameFromRepoAndNumber ==
    d_result.ok =>
        /\ \A i \in 1..Len(d_runners) :
              LET r == d_runners[i] IN
              /\ parent(parent(r.path)) = runners_dir
              /\ r.repo = file_name(parent(r.path))
              /\ r.number = SlotNumber(file_name(r.path))
              /\ r.service_name = ServiceNameText(User, r.repo, r.number)
        /\ \A i, j \in 1..Len(d_runners) :
              (d_runners[i].repo = d_runners[j].repo
                  /\ d_runners[i].number = d_runners[j].number)
              => d_runners[i].service_name = d_runners[j].service_name
        /\ \A top_order \in TopOrders, sub_order \in SlotOrders :
              /\ IdentitySet(Rediscovered(top_order, sub_order)) = IdentitySet(d_runners)
              /\ Len(Rediscovered(top_order, sub_order)) = Len(d_runners)

\* A slot named x with number 0, one named 01 with number 1, and a runner of
\* the second repository
C22_Witness ==
    /\ d_result.ok
    /\ \E i, j, k \in 1..Len(d_runners) :
          /\ file_name(d_runners[i].path) = << "x" >>
          /\ d_runners[i].service_name = ServiceNameText(User, RepoA, 0)
          /\ file_name(d_runners[j].path) = << "0", "1" >>
          /\ d_runners[j].service_name = ServiceNameText(User, RepoA, 1)
          /\ d_runners[k].service_name = ServiceNameText(User, RepoB, 1)

\* C23: discovery returns an error only when the home directory is not known
\* or reading the root directory fails; with the root missing it returns an
\* empty list; a repository directory that cannot be read does not make it
\* fail.
C23_DiscoveryFailsOnlyAtRoot ==
    d_result # NoResult =>
        /\ d_result.ok <=> world.tree.root \notin { "nohome", "unreadable" }
        /\ world.tree.root = "missing" => d_runners = << >>

\* C35: no two runners of one discovered list, found in different
\* directories, have the same service name.
C35_ServiceNameUnique ==
    d_result.ok =>
        \A i, j \in 1..Len(d_runners) :
            d_runners[i].path # d_runners[j].path
            => d_runners[i].service_name # d_runners[j].service_name

---------------------------------------------------------------------------
(* control_runner as the worker sees it: one call, start to return         *)

\* What control_runner_direct can return once validate_path has passed
direct_returns(action) ==
    CASE action = "start"   -> { Ok("Started {}"), Err("Failed to start runner {}") }
      [] action = "stop"    -> { Ok("Stopped {}"), Err("Failed to stop runner {}") }
      [] action = "restart" -> { Ok("Restarted {}"),
                                 Err("Failed to restart runner {}"),
                                 Err("Timeout waiting for runner {} to stop") }
      [] OTHER              -> { Err("Invalid action: {}") }

\* Every value a call of control_runner can return on host w: the checks,
\* then the first tier that applies, with every way its commands can end
control_runner_returns(os, w, runner, action) ==
    LET v == control_runner_checks(runner, action) IN
    IF v # Pass THEN { v }
    ELSE IF tier1_registered(os, w, runner)
    THEN { handle_control_output(out) : out \in Outcomes }
    ELSE IF runner.path \in w.svc
    THEN { handle_control_output(out) : out \in Outcomes }
         \cup (IF action = "start"
               THEN { Err("io error"),
                      Err("Failed to install service for {}: {stderr}") }
               ELSE {})
    ELSE IF ~ validate_path(runner.path).ok
    THEN { Err(validate_path(runner.path).err) }
    ELSE direct_returns(action)

---------------------------------------------------------------------------
(* The queues and their messages (app.rs:15-28)                            *)

Refresh(id) ==
    [ kind |-> "Refresh", id |-> id, runner_index |-> 0, action |-> "" ]
ControlRunner(id, runner_index, action) ==
    [ kind |-> "ControlRunner", id |-> id, runner_index |-> runner_index,
      action |-> action ]
Shutdown(id) ==
    [ kind |-> "Shutdown", id |-> id, runner_index |-> 0, action |-> "" ]

RunnersUpdated(rs) ==
    [ kind |-> "RunnersUpdated", runners |-> rs, message |-> NoResult ]
ActionComplete(message) ==
    [ kind |-> "ActionComplete", runners |-> << >>, message |-> message ]

\* Sender::send on the response queue: kept while the receiver is alive
response_send(q, alive, msgs) == IF alive THEN q \o msgs ELSE q

\* The history entry of one send: the command answered and the host probed
Sent(id, msg, host) == [ id |-> id, msg |-> msg, host |-> host ]

---------------------------------------------------------------------------
(* worker_thread (app.rs:268-323): one action per arm of the match         *)

\* (mutant) the element is read without the bounds check
runners_get_unchecked(rs, runner_index) ==
    [ some |-> TRUE,
      runner |-> IF runner_index + 1 \in DOMAIN rs THEN rs[runner_index + 1]
                 ELSE NoRunner ]

\* runners.get(runner_index).cloned(): Option<Runner>, indices from 0
runners_get(rs, runner_index) ==
    IF runner_index + 1 \in DOMAIN rs
    THEN [ some |-> TRUE, runner |-> rs[runner_index + 1] ]
    ELSE [ some |-> FALSE, runner |-> NoRunner ]

\* (mutant) the completion message is sent first
control_responses_swapped(rs, message) ==
    << ActionComplete(message), RunnersUpdated(rs) >>

\* The two sends that end the ControlRunner arm, lines 307-308
control_responses(rs, message) ==
    << RunnersUpdated(rs), ActionComplete(message) >>

\* (mutant) the list is published as it was before the action
control_refresh_stale(os, w_before, w_after, rs) ==
    refresh_runners(os, w_before, rs)

\* The refresh of the ControlRunner arm, line 304: it runs after the action,
\* on the host as the action left it
control_refresh(os, w_before, w_after, rs) ==
    refresh_runners(os, w_after, rs)

\* `message`, lines 290-301: the Ok text, "Error: {}" of the Err
out_of_bounds == Err("Runner index {} out of bounds (have {} runners)")

\* The states a unit of the hosts of Spec is in
SpecUnitStates == { "active", "failed" }

\* The hosts that differ from w in at most the state of the unit `name`
HostsAround(w, name) ==
    { [ w EXCEPT !.unit = [ n \in DOMAIN w.unit |->
                              IF n = name THEN st ELSE w.unit[n] ] ]
      : st \in SpecUnitStates }

\* The hosts a probe can find when w is the host last seen: units change
\* state on their own (a job ends, a unit fails) between two probes
HostsSince(w) ==
    { w } \cup UNION { HostsAround(w, name) : name \in DOMAIN w.unit }

workerFrame == UNCHANGED << platform, calls, appVars, ctlVars, prbVars, h_cmds >>

\* (mutant) the worker runs discovery again before it probes
WorkerRefresh_rediscover ==
    /\ w_pc = "running"
    /\ command_q # << >>
    /\ Head(command_q).kind = "Refresh"
    /\ \E host \in HostsSince(world), top_order \in TopOrders, sub_order \in SlotOrders :
         LET cmd == Head(command_q)
             rs  == refresh_runners(platform, host,
                        discover_runners(platform, host, top_order, sub_order).rs)
             out == << RunnersUpdated(rs) >>
         IN  /\ w_cmd' = cmd
             /\ world' = host
             /\ w_runners' = rs
             /\ response_q' = response_send(response_q, rx_alive, out)
             /\ h_sent' = h_sent \o << Sent(cmd.id, out[1], host) >>
    /\ command_q' = Tail(command_q)
    /\ UNCHANGED << w_pc, w_msg, tx_alive, rx_alive, h_ctl >>
    /\ workerFrame

\* Ok(WorkerCommand::Refresh)
WorkerRefresh ==
    /\ w_pc = "running"
    /\ command_q # << >>
    /\ Head(command_q).kind = "Refresh"
    /\ \E host \in HostsSince(world) :
         LET cmd == Head(command_q)
             rs  == refresh_runners(platform, host, w_runners)
             out == << RunnersUpdated(rs) >>
         IN  /\ w_cmd' = cmd
             /\ world' = host
             /\ w_runners' = rs
             /\ response_q' = response_send(response_q, rx_alive, out)
             /\ h_sent' = h_sent \o << Sent(cmd.id, out[1], host) >>
    /\ command_q' = Tail(command_q)
    /\ UNCHANGED << w_pc, w_msg, tx_alive, rx_alive, h_ctl >>
    /\ workerFrame

\* Ok(WorkerCommand::ControlRunner { runner_index, action })
WorkerControl ==
    /\ w_pc = "running"
    /\ command_q # << >>
    /\ Head(command_q).kind = "ControlRunner"
    /\ LET cmd == Head(command_q)
           got == runners_get(w_runners, cmd.runner_index)
       IN  \E message \in IF got.some
                           THEN control_runner_returns(platform, world,
                                                       got.runner, cmd.action)
                           ELSE { out_of_bounds } :
           \E host \in IF got.some /\ control_runner_checks(got.runner,
                                                             cmd.action) = Pass
                        THEN HostsAround(world, got.runner.service_name)
                        ELSE { world } :
             LET rs  == control_refresh(platform, world, host, w_runners)
                 out == control_responses(rs, message)
             IN  /\ w_cmd' = cmd
                 /\ w_msg' = message
                 /\ world' = host
                 /\ w_runners' = rs
                 /\ response_q' = response_send(response_q, rx_alive, out)
                 /\ h_sent' = h_sent \o << Sent(cmd.id, out[1], host),
                                           Sent(cmd.id, out[2], host) >>
                 /\ h_ctl' = IF got.some
                             THEN Append(h_ctl, [ id |-> cmd.id,
                                                  runner |-> Identity(got.runner) ])
                             ELSE h_ctl
    /\ command_q' = Tail(command_q)
    /\ UNCHANGED << w_pc, tx_alive, rx_alive >>
    /\ workerFrame

\* (mutant) Shutdown is taken off the queue and the loop goes on
WorkerShutdown_ignored ==
    /\ w_pc = "running"
    /\ command_q # << >>
    /\ Head(command_q).kind = "Shutdown"
    /\ w_cmd' = Head(command_q)
    /\ command_q' = Tail(command_q)
    /\ UNCHANGED << world, response_q, tx_alive, rx_alive, w_pc, w_runners,
                    w_msg, h_sent, h_ctl >>
    /\ workerFrame

\* Ok(WorkerCommand::Shutdown)
WorkerShutdown ==
    /\ w_pc = "running"
    /\ command_q # << >>
    /\ Head(command_q).kind = "Shutdown"
    /\ w_cmd' = Head(command_q)
    /\ command_q' = Tail(command_q)
    /\ w_pc' = "stopped"
    /\ UNCHANGED << world, response_q, tx_alive, rx_alive, w_runners, w_msg,
                    h_sent, h_ctl >>
    /\ workerFrame

\* (mutant) a disconnected queue is treated like a timeout
WorkerDisconnected_ignored ==
    /\ w_pc = "running"
    /\ command_q = << >>
    /\ ~ tx_alive
    /\ UNCHANGED vars

\* Err(RecvTimeoutError::Disconnected): the queue is empty and App is gone.
\* Drop puts Shutdown on the queue before the sender goes, so the worker of
\* this program always meets Shutdown first: the arm is not a step of Spec
WorkerDisconnected ==
    /\ w_pc = "running"
    /\ command_q = << >>
    /\ ~ tx_alive
    /\ w_pc' = "stopped"
    /\ UNCHANGED << world, chanVars, w_runners, w_cmd, w_msg, h_sent, h_ctl >>
    /\ workerFrame

\* (mutant) the timeout arm probes and publishes the list, as a periodic
\* refresh of the worker's own
WorkerTimeout_publishes ==
    /\ w_pc = "running"
    /\ command_q = << >>
    /\ tx_alive
    /\ LET rs  == refresh_runners(platform, world, w_runners)
           out == << RunnersUpdated(rs) >>
       IN  /\ w_runners' = rs
           /\ response_q' = response_send(response_q, rx_alive, out)
           /\ h_sent' = h_sent \o << Sent(0, out[1], world) >>
    /\ UNCHANGED << world, command_q, tx_alive, rx_alive, w_pc, w_cmd, w_msg, h_ctl >>
    /\ workerFrame

\* Err(RecvTimeoutError::Timeout): nothing arrived in 100 ms
WorkerTimeout ==
    /\ w_pc = "running"
    /\ command_q = << >>
    /\ tx_alive
    /\ UNCHANGED vars

---------------------------------------------------------------------------
(* App and run_app (app.rs:63-265, main.rs:56-139). The methods of App are *)
(* operators on the record of what they read and write:                    *)
(*   sel, msg, mode, quit : App.selected, status_message, mode, should_quit*)
(*   n    : App.runners.len()                                              *)
(*   q    : the command queue;  up: its receiver (the worker) is alive     *)
(*   cmds : every command sent so far                                      *)
(*   rs, os : App.runners and the platform the program was built for       *)
(*   io   : the external processes the method ran, in order                *)
(* In Spec, `calls` holds the external processes the presentation context  *)
(* ran in its latest turn of the loop of run_app.                          *)

\* Commands the model lets the presentation send in one run
MaxCmds == 2

\* Sender::send on the command queue: Err when the receiver is gone
command_send(a, kind, runner_index, action) ==
    LET cmd == [ kind |-> kind, id |-> Len(a.cmds) + 1,
                 runner_index |-> runner_index, action |-> action ]
    IN  IF a.up
        THEN [ a EXCEPT !.q = Append(@, cmd), !.cmds = Append(@, cmd), !.sent = TRUE ]
        ELSE [ a EXCEPT !.sent = FALSE ]

\* get_runner_logs: the external processes it runs. On Linux journalctl,
\* with Command::output, which waits for it; on macOS it reads files
get_runner_logs_calls(os, runner) ==
    IF os = "macos" THEN << >>
    ELSE << Call("journalctl", runner.service_name, "") >>

\* App::refresh_logs; the log lines themselves are not modelled
refresh_logs(a) ==
    IF a.sel + 1 \in DOMAIN a.rs
    THEN [ a EXCEPT !.io = @ \o get_runner_logs_calls(a.os, a.rs[a.sel + 1]) ]
    ELSE a

\* (mutant) the refresh probes the runners itself, as well as asking the
\* worker to
App_refresh_probing(a) ==
    LET b == command_send(a, "Refresh", 0, "")
        c == IF b.sent THEN b
             ELSE [ b EXCEPT !.msg = "Warning: Worker thread unavailable" ]
    IN  [ c EXCEPT !.io = @ \o << Call("pgrep -af Runner", << >>, "") >> ]

\* App::refresh; its refresh of the system figures changes none of the
\* fields modelled
App_refresh(a) ==
    LET b == command_send(a, "Refresh", 0, "")
        c == IF b.sent THEN b
             ELSE [ b EXCEPT !.msg = "Warning: Worker thread unavailable" ]
    IN  IF c.mode = "Logs" THEN refresh_logs(c) ELSE c

\* format!("{}ing runner...", capitalized)
pending_text(action) ==
    CASE action = "start"   -> "Starting runner..."
      [] action = "stop"    -> "Stoping runner..."
      [] action = "restart" -> "Restarting runner..."

\* (mutant) the command names the first runner, not the selected one
control_selected_runner_first(a, action) ==
    LET b == command_send(a, "ControlRunner", 0, action) IN
    IF b.sent THEN [ b EXCEPT !.msg = pending_text(action) ]
    ELSE [ b EXCEPT !.msg = "Error: Worker thread unavailable" ]

\* App::control_selected_runner
control_selected_runner(a, action) ==
    LET b == command_send(a, "ControlRunner", a.sel, action) IN
    IF b.sent THEN [ b EXCEPT !.msg = pending_text(action) ]
    ELSE [ b EXCEPT !.msg = "Error: Worker thread unavailable" ]

\* (mutant) the selection moves down without wrapping
select_next_nowrap(a) ==
    IF a.n # 0 THEN [ a EXCEPT !.sel = a.sel + 1 ] ELSE a

\* App::select_next
select_next(a) ==
    IF a.n # 0 THEN [ a EXCEPT !.sel = (a.sel + 1) % a.n ] ELSE a

\* App::select_previous
select_previous(a) ==
    IF a.n # 0 THEN [ a EXCEPT !.sel = IF a.sel = 0 THEN a.n - 1 ELSE a.sel - 1 ]
    ELSE a

\* App::toggle_logs
toggle_logs(a) ==
    IF a.mode = "Logs" THEN [ a EXCEPT !.mode = "Normal" ]
    ELSE refresh_logs([ a EXCEPT !.mode = "Logs" ])

\* App::toggle_help
toggle_help(a) ==
    [ a EXCEPT !.mode = IF a.mode = "Help" THEN "Normal" ELSE "Help" ]

\* The keys told apart: q, Ctrl-C, Up or k, Down or j, s, x, r, l, ? or h,
\* Esc, any other key
Keys == { "q", "ctrl-c", "up", "down", "s", "x", "r", "l", "help", "esc", "other" }

handle_normal_mode(a, key) ==
    CASE key \in { "q", "ctrl-c" } -> [ a EXCEPT !.quit = TRUE ]
      [] key = "up"    -> select_previous(a)
      [] key = "down"  -> select_next(a)
      [] key = "s"     -> control_selected_runner(a, "start")
      [] key = "x"     -> control_selected_runner(a, "stop")
      [] key = "r"     -> control_selected_runner(a, "restart")
      [] key = "l"     -> toggle_logs(a)
      [] key = "help"  -> toggle_help(a)
      [] OTHER         -> a

handle_logs_mode(a, key) ==
    CASE key = "q"               -> [ a EXCEPT !.quit = TRUE ]
      [] key \in { "l", "esc" }  -> toggle_logs(a)
      [] key = "help"            -> toggle_help(a)
      [] OTHER                   -> a

\* run_app, lines 69-91: a key was read
key_event(a, key) ==
    LET b == [ a EXCEPT !.msg = "None" ] IN
    CASE b.mode = "Help"   -> [ b EXCEPT !.mode = "Normal" ]
      [] b.mode = "Logs"   -> handle_logs_mode(b, key)
      [] b.mode = "Normal" -> handle_normal_mode(b, key)

\* App::poll_worker_updates: the queue drained into runners, selected and
\* status_message; nothing in main.rs or ui.rs calls it
RECURSIVE poll_worker_updates(_, _, _)
poll_worker_updates(a, rs, q) ==
    IF q = << >> THEN [ app |-> a, runners |-> rs, q |-> q ]
    ELSE IF Head(q).kind = "RunnersUpdated"
    THEN LET updated == Head(q).runners IN
         poll_worker_updates(
             [ a EXCEPT !.n = Len(updated),
                        !.sel = IF a.sel >= Len(updated) /\ updated # << >>
                                THEN Len(updated) - 1 ELSE a.sel ],
             updated, Tail(q))
    ELSE poll_worker_updates([ a EXCEPT !.msg = Head(q).message.text ], rs, Tail(q))

AppView ==
    [ sel |-> selected, msg |-> status_message, mode |-> mode,
      quit |-> should_quit, n |-> Len(runners), rs |-> runners,
      os |-> platform, io |-> << >>,
      q |-> command_q, up |-> w_pc # "stopped", cmds |-> h_cmds, sent |-> TRUE ]

AppStore(a) ==
    /\ selected' = a.sel
    /\ status_message' = a.msg
    /\ mode' = a.mode
    /\ should_quit' = a.quit
    /\ command_q' = a.q
    /\ h_cmds' = a.cmds
    /\ calls' = a.io
    /\ Len(a.cmds) <= MaxCmds

uiFrame == UNCHANGED << worldVars, response_q, tx_alive, rx_alive, workVars,
                        runners, ctlVars, prbVars, h_sent, h_ctl >>

\* One turn of the loop of run_app in which event::poll returned a key;
\* `due` says whether the refresh interval has passed by the end of the turn
UiKey ==
    /\ ui_pc = "loop"
    /\ \E key \in Keys, due \in BOOLEAN :
         LET a == key_event(AppView, key)
             b == IF ~ a.quit /\ due THEN App_refresh(a) ELSE a
         IN  /\ AppStore(b)
             /\ ui_pc' = IF a.quit THEN "returned" ELSE "loop"
    /\ uiFrame

\* One turn of the loop in which event::poll timed out: the refresh is due
UiTick ==
    /\ ui_pc = "loop"
    /\ AppStore(App_refresh(AppView))
    /\ ui_pc' = "loop"
    /\ uiFrame

\* main returns: App is dropped. Drop sends Shutdown, then the fields go,
\* the sender of the command queue and the receiver of the response queue
AppDrop ==
    /\ ui_pc = "returned"
    /\ LET a == command_send(AppView, "Shutdown", 0, "") IN
         /\ command_q' = a.q
         /\ h_cmds' = a.cmds
    /\ tx_alive' = FALSE
    /\ rx_alive' = FALSE
    /\ ui_pc' = "dropped"
    /\ UNCHANGED << worldVars, calls, response_q, workVars, runners, selected,
                    status_message, mode, should_quit, ctlVars, prbVars,
                    h_sent, h_ctl >>

---------------------------------------------------------------------------
(* Spec: the program, from App::new to the drop of App                     *)

\* The lists discovery hands to App::new
StartupLists == { SlotList(0), SlotList(1) }

\* The tree discovery found the runners rs in: one repository, holding the
\* directory of each runner with its run.sh
TreeOf(rs) ==
    [ root |-> "dir",
      top  |-> (RepoA :> [ kind |-> "dir",
                           sub  |-> [ n \in SlotNames |->
                                        IF \E i \in 1..Len(rs) : file_name(rs[i].path) = n
                                        THEN "runner" ELSE "absent" ] ])
               @@ (RepoB :> NoEntry) @@ (RepoRaw :> NoEntry) @@ (ReadMe :> NoEntry) ]

\* The hosts of Spec: every runner's unit is registered
SpecWorlds(rs) ==
    { [ EmptyWorld EXCEPT !.unit = st, !.markers = PathsOf(rs), !.tree = TreeOf(rs) ]
      : st \in [ NamesOf(rs) -> SpecUnitStates ] }

\* discover_repo_runners, line 130: the status discovery gives each runner
discovered(os, w, rs) ==
    [ i \in 1..Len(rs) |->
        [ rs[i] EXCEPT !.status =
            get_service_status(os, w, rs[i].service_name, rs[i].path) ] ]

\* App::new: discovery, the two queues, the worker spawned on a clone
Init ==
    /\ platform = "linux"
    /\ \E rs \in StartupLists :
         /\ world \in SpecWorlds(rs)
         /\ runners = discovered(platform, world, rs)
    /\ w_runners = runners
    /\ calls = << >>
    /\ command_q = << >> /\ response_q = << >>
    /\ tx_alive = TRUE /\ rx_alive = TRUE
    /\ w_pc = "running" /\ w_cmd = NoCmd /\ w_msg = NoResult
    /\ selected = 0 /\ status_message = "None" /\ mode = "Normal"
    /\ should_quit = FALSE /\ ui_pc = "loop"
    /\ CtlParked /\ PrbParked /\ HistParked

Next ==
    \/ UiKey
    \/ UiTick
    \/ AppDrop
    \/ WorkerRefresh
    \/ WorkerControl
    \/ WorkerShutdown
    \/ WorkerTimeout

Spec == Init /\ [][Next]_vars

---------------------------------------------------------------------------
(* Properties of Spec                                                      *)

\* The number of commands the worker has taken off the command queue
Handled == Len(h_cmds) - Len(command_q)

\* The ids of the ControlRunner commands the worker has handled
HandledControls ==
    { id \in 1..Handled : h_cmds[id].kind = "ControlRunner" }

\* Where in the order of the worker's sends the answers to command id are
SendsOf(id) == { i \in DOMAIN h_sent : h_sent[i].id = id }

\* The sends that answer command id in full: one for Refresh, two for
\* ControlRunner
Answered(id) ==
    Cardinality(SendsOf(id)) =
        IF h_cmds[id].kind = "ControlRunner" THEN 2 ELSE 1

\* What the response queue holds of the worker's sends
Delivered == [ i \in DOMAIN h_sent |-> h_sent[i].msg ]

\* C1: every ControlRunner command the worker has handled was answered by
\* exactly two sends, next to each other in the order of all sends: one
\* RunnersUpdated, then one ActionComplete. A command not yet handled has no
\* answer, and the response queue holds the sends in that order while its
\* receiver lives.
C1_ControlAnsweredByListThenCompletion ==
    /\ \A id \in HandledControls :
         \E i \in DOMAIN h_sent :
           /\ SendsOf(id) = { i, i + 1 }
           /\ i + 1 \in DOMAIN h_sent
           /\ h_sent[i].msg.kind = "RunnersUpdated"
           /\ h_sent[i + 1].msg.kind = "ActionComplete"
    /\ \A id \in (Handled + 1)..Len(h_cmds) : SendsOf(id) = {}
    /\ rx_alive => response_q = Delivered

\* Two ControlRunner commands were handled, one ending in Ok and one in Err,
\* and the queue holds their four responses
C1_Witness ==
    /\ Handled >= 2
    /\ HandledControls = { 1, 2 }
    /\ Len(response_q) = 4
    /\ response_q[2].message.ok
    /\ ~ response_q[4].message.ok

\* C2: the list a ControlRunner command publishes is the probe of the host as
\* the action left it, over the whole list, whether the action ended in Ok or
\* in Err; the worker keeps that list.
C2_PublishedListIsPostActionProbe ==
    \A i \in DOMAIN h_sent :
      ( /\ h_sent[i].msg.kind = "RunnersUpdated"
        /\ h_cmds[h_sent[i].id].kind = "ControlRunner" )
      => /\ h_sent[i].msg.runners =
              refresh_runners(platform, h_sent[i].host, runners)
         /\ i + 1 = Len(h_sent) => w_runners = h_sent[i].msg.runners

\* A control action on a listed runner ended in Err and the list published
\* after it differs from the list the program started with
C2_Witness ==
    \E i \in DOMAIN h_sent :
      /\ h_sent[i].msg.kind = "RunnersUpdated"
      /\ h_sent[i].id \in { e.id : e \in { h_ctl[k] : k \in DOMAIN h_ctl } }
      /\ h_sent[i].msg.runners # runners
      /\ i + 1 \in DOMAIN h_sent
      /\ ~ h_sent[i + 1].msg.message.ok

\* C3: every turn of the loop of run_app leaves the response queue empty.
C3_EveryTickDrainsResponses ==
    [][ (UiKey \/ UiTick) => response_q' = << >> ]_vars

\* The handled ControlRunner commands whose index is outside the worker's list
OutOfBoundsControls ==
    { id \in HandledControls : h_cmds[id].runner_index >= Len(w_runners) }

\* C10: a ControlRunner command whose index is not below the length of the
\* worker's list leads to no call of control_runner, is answered with an
\* ActionComplete carrying the out-of-bounds error, and does not stop the
\* worker: the worker stops on Shutdown alone.
C10_OutOfBoundsAnsweredWorkerRuns ==
    /\ \A id \in OutOfBoundsControls :
         /\ \A k \in DOMAIN h_ctl : h_ctl[k].id # id
         /\ \E i \in SendsOf(id) : h_sent[i].msg = ActionComplete(out_of_bounds)
    /\ w_pc = "stopped" => w_cmd.kind = "Shutdown"

\* An out-of-bounds command was answered and the worker went on to answer the
\* command that followed it
C10_Witness ==
    /\ 1 \in OutOfBoundsControls
    /\ Handled >= 2
    /\ SendsOf(2) # {}
    /\ w_pc = "running"


\* The commands the status probes run
ProbeCommands ==
    { "pgrep -af Runner", "pgrep -f", "systemctl cat", "systemctl is-active",
      "launchctl list" }

\* The commands the control actions run
ControlCommands ==
    { "systemctl cat", "sudo systemctl", "launchctl load", "launchctl unload",
      "launchctl kickstart -k", "svc.sh", "sudo svc.sh", "nohup run.sh",
      "pkill -f", "pgrep -f" }

\* C13: the worker's sequences do not overlap: its sends answer the commands
\* one after the other in the order they were sent, none for a command it
\* has not taken yet, and a command is taken only when the one before it has
\* its full answer. While the worker runs, the presentation context runs no
\* probe command and no control command itself.
C13_OneSequenceInFlight ==
    /\ \A i, j \in DOMAIN h_sent : i < j => h_sent[i].id <= h_sent[j].id
    /\ \A i \in DOMAIN h_sent : h_sent[i].id <= Handled
    /\ \A id \in 1..Handled :
         h_cmds[id].kind # "Shutdown" => Answered(id)
    /\ w_pc = "running" =>
         \A i \in DOMAIN calls :
           calls[i].cmd \notin ProbeCommands \cup ControlCommands

\* The worker has answered two commands and is running while the
\* presentation context has just run an external process of its own
C13_Witness ==
    /\ w_pc = "running"
    /\ Handled = 2
    /\ calls # << >>
    /\ \E i, j \in DOMAIN h_sent : h_sent[i].id = 1 /\ h_sent[j].id = 2

\* C14: no operation of the presentation context runs an external process.
C14_PresentationRunsNoSubprocess == calls = << >>

---------------------------------------------------------------------------
(* SpecWorker: worker_thread on its own, with any holder of the other ends *)
(* of its two queues. The holder sends any commands in any order, Shutdown *)
(* among them, and may drop its ends at any moment, with or without a      *)
(* Shutdown sent before.                                                   *)

SenderView ==
    [ q |-> command_q, up |-> w_pc # "stopped", cmds |-> h_cmds, sent |-> TRUE ]

\* The commands of WorkerCommand the holder sends: an index inside or
\* outside a list of at most one runner
SenderCommands ==
    { [ kind |-> "Refresh", runner_index |-> 0, action |-> "" ],
      [ kind |-> "Shutdown", runner_index |-> 0, action |-> "" ] }
    \cup { [ kind |-> "ControlRunner", runner_index |-> i, action |-> a ]
           : i \in { 0, 1 }, a \in { "start", "stop" } }

senderFrame == UNCHANGED << worldVars, calls, response_q, workVars, appVars,
                            ctlVars, prbVars, h_sent, h_ctl >>

\* The commands of kind `kind` sent so far
SentOfKind(kind) == { i \in DOMAIN h_cmds : h_cmds[i].kind = kind }

\* command_tx.send(cmd): at most one Shutdown and MaxCmds other commands
SenderSend ==
    /\ tx_alive
    /\ \E c \in SenderCommands :
         /\ IF c.kind = "Shutdown"
            THEN SentOfKind("Shutdown") = {}
            ELSE Len(h_cmds) - Cardinality(SentOfKind("Shutdown")) < MaxCmds
         /\ LET a == command_send(SenderView, c.kind, c.runner_index, c.action)
            IN  /\ command_q' = a.q
                /\ h_cmds' = a.cmds
    /\ UNCHANGED << tx_alive, rx_alive >>
    /\ senderFrame

\* The sender of the command queue is dropped; the receiver of the response
\* queue is dropped with it or lives on
SenderDrop ==
    /\ tx_alive
    /\ tx_alive' = FALSE
    /\ rx_alive' \in { rx_alive, FALSE }
    /\ UNCHANGED << command_q, h_cmds >>
    /\ senderFrame

\* worker_thread(runners_clone, command_rx, response_tx) has been spawned
InitWorker ==
    /\ platform = "linux"
    /\ \E rs \in StartupLists :
         /\ world \in SpecWorlds(rs)
         /\ w_runners = discovered(platform, world, rs)
    /\ calls = << >>
    /\ command_q = << >> /\ response_q = << >>
    /\ tx_alive = TRUE /\ rx_alive = TRUE
    /\ w_pc = "running" /\ w_cmd = NoCmd /\ w_msg = NoResult
    /\ AppParked /\ CtlParked /\ PrbParked /\ HistParked

\* The arms of the worker's match that handle a command or end the thread
WorkerStep ==
    \/ WorkerRefresh
    \/ WorkerControl
    \/ WorkerShutdown
    \/ WorkerDisconnected

NextWorker ==
    \/ SenderSend
    \/ SenderDrop
    \/ WorkerRefresh
    \/ WorkerControl
    \/ WorkerShutdown
    \/ WorkerDisconnected
    \/ WorkerTimeout

\* recv_timeout returns after 100 ms at the latest and the thread is
\* scheduled: an arm that stays enabled is taken
SpecWorker == InitWorker /\ [][NextWorker]_vars /\ WF_vars(WorkerStep)

---------------------------------------------------------------------------
(* Properties of SpecWorker                                                *)

\* C11: the worker handles the commands in the order sent. When it has taken
\* Shutdown off the queue it has stopped, every command sent before the
\* Shutdown has been answered in full, and no command sent after it is ever
\* handled or answered; once stopped, the worker sends nothing more and
\* takes nothing more off the queue.
C11_ShutdownIsCooperative ==
    /\ [] ( \A k \in SentOfKind("Shutdown") :
              /\ Handled <= k
              /\ \A id \in (k + 1)..Len(h_cmds) : SendsOf(id) = {}
              /\ Handled = k =>
                   /\ w_pc = "stopped"
                   /\ \A id \in 1..(k - 1) : Answered(id) )
    /\ [][ w_pc = "stopped" =>
             UNCHANGED << w_pc, h_sent, response_q, command_q, w_runners >> ]_vars

\* A ControlRunner command, then Shutdown, then a Refresh were sent; the
\* worker answered the first, stopped on the second and left the third
C11_Witness ==
    /\ Len(h_cmds) = 3
    /\ h_cmds[1].kind = "ControlRunner"
    /\ h_cmds[2].kind = "Shutdown"
    /\ h_cmds[3].kind = "Refresh"
    /\ w_pc = "stopped"
    /\ Len(h_sent) = 2
    /\ Len(command_q) = 1

\* The sender is gone and never sent Shutdown
SenderGoneSilently == ~ tx_alive /\ SentOfKind("Shutdown") = {}

\* C12: once the sender of the command queue is dropped with no Shutdown
\* sent, the worker eventually stops, having handled and answered every
\* command that was still on the queue; and the worker never stops for any
\* other reason than a Shutdown taken off the queue or an empty queue whose
\* sender is gone, so not on a timeout while the sender lives.
C12_DisconnectStopsWorker ==
    /\ SenderGoneSilently ~>
         ( /\ w_pc = "stopped"
           /\ command_q = << >>
           /\ \A id \in DOMAIN h_cmds : Answered(id) )
    /\ [] ( w_pc = "stopped" =>
              \/ w_cmd.kind = "Shutdown"
              \/ ~ tx_alive /\ command_q = << >> )

\* The sender went without a Shutdown, with the receiver of the responses,
\* while a command was still on the queue; the worker handled it and stopped
C12_Witness ==
    /\ SenderGoneSilently
    /\ w_pc = "stopped"
    /\ h_cmds # << >>
    /\ ~ rx_alive
    /\ Len(response_q) < Len(h_sent)

\* The responses one command is answered with, by kind, lines 281, 307-308
AnswerKinds(cmd) ==
    CASE cmd.kind = "Refresh"       -> << "RunnersUpdated" >>
      [] cmd.kind = "ControlRunner" -> << "RunnersUpdated", "ActionComplete" >>
      [] OTHER                      -> << >>

\* The answers to the commands id..upto, in the order of the commands
RECURSIVE AnswersTo(_, _)
AnswersTo(id, upto) ==
    IF id > upto THEN << >>
    ELSE [ k \in 1..Len(AnswerKinds(h_cmds[id])) |->
             [ id |-> id, kind |-> AnswerKinds(h_cmds[id])[k] ] ]
         \o AnswersTo(id + 1, upto)

\* The worker's sends so far: the command answered and the kind sent
SendKinds ==
    [ k \in 1..Len(h_sent) |-> [ id |-> h_sent[k].id, kind |-> h_sent[k].msg.kind ] ]

\* C31: the worker's sends are, in order, the answers to the commands it has
\* taken off the queue, in the order the commands were enqueued: one
\* RunnersUpdated for a Refresh, one RunnersUpdated then one ActionComplete
\* for a ControlRunner, nothing else; the response queue holds those sends
\* in that order, all of them while its receiver lives; and a step that
\* finds the command queue empty and leaves it empty, a receive timeout
\* among them, sends nothing.
C31_OneForOneInOrder ==
    /\ [] ( SendKinds = AnswersTo(1, Handled) )
    /\ [] ( /\ Len(response_q) <= Len(h_sent)
            /\ response_q = SubSeq(Delivered, 1, Len(response_q))
            /\ rx_alive => response_q = Delivered )
    /\ [][ ( command_q = << >> /\ command_q' = << >> )
            => ( h_sent' = h_sent /\ response_q' = response_q ) ]_vars

\* A ControlRunner command and then a Refresh were handled, and the queue
\* holds the three responses
C31_Witness ==
    /\ Handled = 2
    /\ h_cmds[1].kind = "ControlRunner"
    /\ h_cmds[2].kind = "Refresh"
    /\ Len(response_q) = 3
    /\ w_pc = "running"

---------------------------------------------------------------------------
(* SpecWorkerHost: SpecWorker on a host whose runner directories change    *)
(* after startup                                                           *)

\* The trees that differ from t by one runner directory of the repository
\* removed, or by the directory x added
TreesSince(t) ==
    { [ t EXCEPT !.top[RepoA].sub[n] = "absent" ]
      : n \in { m \in SlotNames : t.top[RepoA].sub[m] = "runner" } }
    \cup { [ t EXCEPT !.top[RepoA].sub[<< "x" >>] = "runner" ] }

\* The host: a runner directory is removed or added, once, while the worker
\* runs
EnvTreeChange ==
    /\ w_pc = "running"
    /\ world.tree = TreeOf(w_runners)
    /\ \E t \in TreesSince(world.tree) : world' = [ world EXCEPT !.tree = t ]
    /\ UNCHANGED << platform, calls, chanVars, workVars, appVars, ctlVars,
                    prbVars, histVars >>

\* The sender stays: what it does when dropped is SpecWorker's matter
NextWorkerHost ==
    \/ SenderSend
    \/ WorkerRefresh
    \/ WorkerControl
    \/ WorkerShutdown
    \/ WorkerTimeout
    \/ EnvTreeChange

SpecWorkerHost == InitWorker /\ [][NextWorkerHost]_vars

\* The lists the worker has published
PublishedLists ==
    { h_sent[k].msg.runners :
        k \in { j \in 1..Len(h_sent) : h_sent[j].msg.kind = "RunnersUpdated" } }

\* C30: every list the worker publishes has the length, the order and the
\* identities (repo, number, serviceName, path) of the list the worker was
\* started with, which is the list discovery found in the tree of startup;
\* handling a command changes statuses only, also after a runner directory
\* was added or removed.
C30_PublishedIdentitiesFixed ==
    /\ [] ( \A rs \in PublishedLists : Identities(rs) = Identities(w_runners) )
    /\ [][ Identities(w_runners') = Identities(w_runners) ]_vars

\* A list published for a probe made after the only runner directory was
\* removed still holds the runner
C30_Witness ==
    /\ \E k \in 1..Len(h_sent) :
          /\ h_sent[k].msg.kind = "RunnersUpdated"
          /\ Len(h_sent[k].msg.runners) = 1
          /\ h_sent[k].host.tree.top[RepoA].sub[<< "1" >>] = "absent"
    /\ world.tree # TreeOf(w_runners)

---------------------------------------------------------------------------
(* SpecWorkerGone: the program with a worker thread that can end early     *)

\* The worker thread ends while App lives: a panic unwinds worker_thread
\* and drops command_rx and response_tx, so that every later send on the
\* command queue is Err and try_recv on the response queue is Disconnected
\* once it is empty
WorkerPanic ==
    /\ w_pc = "running"
    /\ ui_pc = "loop"
    /\ w_pc' = "stopped"
    /\ UNCHANGED << platform, world, calls, chanVars, w_runners, w_cmd, w_msg,
                    appVars, ctlVars, prbVars, histVars >>

NextWorkerGone ==
    \/ UiKey
    \/ UiTick
    \/ AppDrop
    \/ WorkerRefresh
    \/ WorkerControl
    \/ WorkerShutdown
    \/ WorkerTimeout
    \/ WorkerPanic

SpecWorkerGone == Init /\ [][NextWorkerGone]_vars

\* The texts that tell the operator the worker is gone (app.rs:110, 142, 216)
WorkerGoneWarnings ==
    { "Warning: Worker thread unavailable",
      "Error: Worker thread unavailable",
      "ERROR: Background worker crashed. Data may be stale." }

\* C27: once the worker has ended, a turn of the loop of run_app that
\* starts with a worker-gone warning as the status message and stays in the
\* loop ends with a worker-gone warning as the status message: the warning
\* stays displayed for as long as the worker remains gone.
C27_WarningStaysWhileWorkerGone ==
    [][ ( /\ w_pc = "stopped"
          /\ ui_pc = "loop" /\ ui_pc' = "loop"
          /\ status_message \in WorkerGoneWarnings )
        => status_message' \in WorkerGoneWarnings ]_vars

---------------------------------------------------------------------------
(* SpecSelect: the selection of App, with any holder of the other end of   *)
(* the response queue. The holder sends lists of any length and            *)
(* completions; App moves the selection and polls the queue.               *)

\* Responses the model lets wait on the queue at once
MaxPending == 2

\* The responses of WorkerResponse the holder sends
PublishedResponses ==
    { RunnersUpdated(SlotList(n)) : n \in 0..MaxRunners }
    \cup { ActionComplete(out_of_bounds) }

\* App::new on a list of any length
InitSelect ==
    /\ platform = "linux"
    /\ world = EmptyWorld
    /\ calls = << >>
    /\ \E n \in 0..MaxRunners : runners = SlotList(n)
    /\ selected = 0 /\ status_message = "None" /\ mode = "Normal"
    /\ should_quit = FALSE /\ ui_pc = "loop"
    /\ command_q = << >> /\ response_q = << >>
    /\ tx_alive = TRUE /\ rx_alive = TRUE
    /\ WorkParked /\ CtlParked /\ PrbParked /\ HistParked

selectFrame == UNCHANGED << worldVars, calls, command_q, tx_alive, rx_alive,
                            workVars, mode, should_quit, ui_pc, ctlVars,
                            prbVars, histVars >>

\* response_tx.send(response)
Publish ==
    /\ Len(response_q) < MaxPending
    /\ \E r \in PublishedResponses : response_q' = Append(response_q, r)
    /\ UNCHANGED << runners, selected, status_message >>
    /\ selectFrame

\* app.select_next()
SelectNext ==
    /\ selected' = select_next(AppView).sel
    /\ UNCHANGED << runners, status_message, response_q >>
    /\ selectFrame

\* app.select_previous()
SelectPrevious ==
    /\ selected' = select_previous(AppView).sel
    /\ UNCHANGED << runners, status_message, response_q >>
    /\ selectFrame

\* app.poll_worker_updates(): the queue is drained
PollWorkerUpdates ==
    /\ LET r == poll_worker_updates(AppView, runners, response_q)
       IN  /\ runners' = r.runners
           /\ selected' = r.app.sel
           /\ status_message' = r.app.msg
           /\ response_q' = r.q
    /\ selectFrame

NextSelect ==
    \/ Publish
    \/ SelectNext
    \/ SelectPrevious
    \/ PollWorkerUpdates

SpecSelect == InitSelect /\ [][NextSelect]_vars

\* C32: whenever App.runners is not empty, App.selected is an index of it;
\* select_next goes from the last runner to the first and otherwise one
\* down, select_previous from the first to the last and otherwise one up,
\* and neither changes the selection of an empty list.
C32_SelectionInsideList ==
    /\ [] ( runners # << >> => selected < Len(runners) )
    /\ [][ SelectNext =>
             selected' = IF runners = << >> THEN selected
                         ELSE IF selected = Len(runners) - 1 THEN 0
                         ELSE selected + 1 ]_vars
    /\ [][ SelectPrevious =>
             selected' = IF runners = << >> THEN selected
                         ELSE IF selected = 0 THEN Len(runners) - 1
                         ELSE selected - 1 ]_vars

\* The selection was moved to the second runner of a list of two and a poll
\* applied a completion and left the queue empty
C32_Witness ==
    /\ Len(runners) = 2
    /\ selected = 1
    /\ response_q = << >>
    /\ status_message # "None"

---------------------------------------------------------------------------
(* SpecPick: App and the worker on lists of up to MaxRunners runners, with *)
(* the keys that move the selection and the key that starts a runner       *)

\* Up, Down and s
PickKeys == { "up", "down", "s" }

\* App::new, on a host where every runner's unit is active
InitPick ==
    /\ platform = "linux"
    /\ \E n \in 0..MaxRunners :
         /\ world = [ EmptyWorld EXCEPT
                        !.unit = [ name \in NamesOf(SlotList(n)) |-> "active" ],
                        !.markers = PathsOf(SlotList(n)),
                        !.tree = TreeOf(SlotList(n)) ]
         /\ runners = discovered(platform, world, SlotList(n))
    /\ w_runners = runners
    /\ calls = << >>
    /\ command_q = << >> /\ response_q = << >>
    /\ tx_alive = TRUE /\ rx_alive = TRUE
    /\ w_pc = "running" /\ w_cmd = NoCmd /\ w_msg = NoResult
    /\ selected = 0 /\ status_message = "None" /\ mode = "Normal"
    /\ should_quit = FALSE /\ ui_pc = "loop"
    /\ CtlParked /\ PrbParked /\ HistParked

\* One turn of the loop of run_app in which event::poll returned one of
\* PickKeys; `due` says whether the refresh interval has passed
UiPickKey ==
    /\ ui_pc = "loop"
    /\ \E key \in PickKeys, due \in BOOLEAN :
         LET a == key_event(AppView, key)
             b == IF ~ a.quit /\ due THEN App_refresh(a) ELSE a
         IN  /\ AppStore(b)
             /\ ui_pc' = IF a.quit THEN "returned" ELSE "loop"
    /\ uiFrame

NextPick ==
    \/ UiPickKey
    \/ WorkerRefresh
    \/ WorkerControl
    \/ WorkerTimeout

SpecPick == InitPick /\ [][NextPick]_vars

\* The ids of the commands sent in this step
SentNow == (Len(h_cmds) + 1)..Len(h_cmds')

\* C33: a ControlRunner command carries the index selected when it was
\* sent; App.runners does not change after startup; and when the worker
\* handles a ControlRunner command sent on a non-empty list, the runner it
\* invokes control_runner on has the identity of the runner of App.runners
\* at that index, whatever commands were handled in between.
C33_WorkerControlsTheSelectedRunner ==
    /\ [][ /\ runners' = runners
           /\ \A id \in SentNow :
                h_cmds'[id].kind = "ControlRunner" =>
                  /\ h_cmds'[id].runner_index = selected
                  /\ selected' = selected ]_vars
    /\ [] ( \A id \in HandledControls :
              runners # << >> =>
                \E k \in DOMAIN h_ctl :
                  /\ h_ctl[k].id = id
                  /\ h_ctl[k].runner =
                       Identity(runners[h_cmds[id].runner_index + 1]) )

\* A Refresh and then a ControlRunner command for the second runner were
\* handled; control_runner was invoked on the second runner
C33_Witness ==
    /\ Handled = 2
    /\ h_cmds[1].kind = "Refresh"
    /\ h_cmds[2].kind = "ControlRunner"
    /\ h_cmds[2].runner_index = 1
    /\ \E k \in DOMAIN h_ctl : h_ctl[k].id = 2 /\ h_ctl[k].runner.number = 2

---------------------------------------------------------------------------
(* SpecProbePair: the batched probe of refresh_runners and the per-runner  *)
(* probe of get_service_status, on the same runners and the same host      *)

\* A live process whose command line names a file of the runner directory
\* and does not match "Runner": an editor, a shell, a job step
OtherProcOf(path) == [ runner |-> FALSE, text |-> path \o << "/", ".", "e", "n", "v" >> ]

\* A runner whose slot directory name holds a character validate_path denies
OddList == << Runner(RepoA, 0, << "a", ";" >>, "NotFound") >>

\* Slots 1 and 10 of one repository: the path of the first is the start of
\* the path of the second
PrefixList == << Runner(RepoA, 1, << "1" >>, "NotFound"),
                 Runner(RepoA, 10, << "1", "0" >>, "NotFound") >>

PairLists == { SlotList(n) : n \in 0..MaxRunners } \cup { OddList, PrefixList }

\* The hosts: any state of each unit or agent, at most one live process
\* naming a runner directory, .runner in every directory or in none, pgrep
\* there or not
PairWorlds(os, rs) ==
    { [ EmptyWorld EXCEPT
          !.unit    = IF os = "linux" THEN st ELSE << >>,
          !.agent   = IF os = "macos" THEN st ELSE << >>,
          !.procs   = ps,
          !.markers = ms,
          !.down    = d ]
      : st \in [ NamesOf(rs) -> IF os = "linux" THEN UnitStates ELSE AgentStates ],
        ps \in { {} } \cup { { ProcOf(q) } : q \in PathsOf(rs) }
                     \cup { { OtherProcOf(q) } : q \in PathsOf(rs) },
        ms \in { {}, PathsOf(rs) },
        d \in SUBSET { "pgrep" } }

InitProbePair ==
    /\ platform \in { "linux", "macos" }
    /\ p_runners \in PairLists
    /\ world \in PairWorlds(platform, p_runners)
    /\ calls = << >>
    /\ p_done = FALSE
    /\ d_runners = << >> /\ d_result = NoResult
    /\ ChanParked /\ WorkParked /\ AppParked /\ CtlParked /\ HistParked

\* refresh_runners(&mut runners) on one copy of the list, and
\* get_service_status(&service_name, &path) for each runner of another
ProbePairRun ==
    /\ ~ p_done
    /\ p_runners' = refresh_runners(platform, world, p_runners)
    /\ d_runners' = discovered(platform, world, p_runners)
    /\ p_done' = TRUE
    /\ UNCHANGED << worldVars, calls, chanVars, workVars, appVars, ctlVars,
                    histVars, d_result >>

NextProbePair == ProbePairRun

SpecProbePair == InitProbePair /\ [][NextProbePair]_vars

\* C34: on the same host the batched probe and the per-runner probe give
\* every runner the same status.
C34_BatchedEqualsPerRunner ==
    p_done => Statuses(p_runners) = Statuses(d_runners)

\* The process l runs from the directory `path`: its command line names the
\* directory itself or something under it
OwnProcess(l, path) == Contains(l.text \o << "/" >>, path \o << "/" >>)

\* C36: the batched process map marks the path of a runner as running only
\* if a live process runs from that runner's own directory, and a runner the
\* service manager does not know is Active after the probe only then.
C36_OnlyOwnProcessMarksRunning ==
    p_done =>
        \A i \in 1..Len(p_runners) :
            ( \/ MarkedRunning(i)
              \/ /\ p_runners[i].status = "Active"
                 /\ UnitState(i) = "absent" /\ AgentState(i) = "absent" )
            => \E l \in world.procs : OwnProcess(l, p_runners[i].path)

=============================================================================
